---- MODULE Spec2Model ----
(***************************************************************************)
(* Edge-to-center event pipeline of Labdetector:                           *)
(*   pcside/communication/multi_ws_manager.py  (MultiPiManager)            *)
(*   pcside/core/expert_manager.py             (ExpertManager)             *)
(* Strings that are joined or tested for emptiness are sequences of        *)
(* tokens: "" is << >>, and " ".join puts the token " " between results.   *)
(***************************************************************************)
EXTENDS Integers, Sequences, FiniteSets, TLC

VARIABLES
    running,        \* MultiPiManager.running
    node_status,    \* MultiPiManager.node_status
    frame_buffers,  \* MultiPiManager.frame_buffers
    decoded,        \* per node, the last preview frame read while running that is an image
    send_queues,    \* MultiPiManager.send_queues (asyncio.Queue per node)
    pi_dict,        \* ids of MultiPiManager.pi_dict whose channels are followed
    num_nodes,      \* len(pi_dict) seen by __init__
    target_fps,     \* MultiPiManager.target_fps, a rational <<num, den>>
    max_cmds,       \* how many send_to_node calls the callers make
    peer_events,    \* whether the peers send anything (frames, events, texts)
    pc,             \* position of _node_handler(pi_id) per node
    rpc,            \* position of recv_stream_task of the current connection
    spc,            \* position of send_command_task of the current connection
    stale,          \* send_command_tasks of closed connections still blocked in get()
    stale_calls,    \* route_and_analyze calls still running for closed connections
    conn,           \* state of the node's websocket
    wire,           \* messages the handler transmitted on the current connection
    task_out,       \* last message a task transmitted on the current connection
    sent_cmds,      \* queued commands transmitted to the node, over all connections
    next_cmd,       \* number of the next send_to_node call
    queued_down,    \* the queued commands that were queued while their node was
                    \* connecting or offline
    ev,             \* the event message recv_stream_task read last, if it did
    tts_text,       \* tts_text of recv_stream_task
    d_experts,      \* ExpertManager.experts (dispatch specification)
    d_event,        \* event_name of the last route_and_analyze call
    d_outcome,      \* what each handler's analyze did in that call
    d_result,       \* the value returned by that call
    d_invoked,      \* the handlers whose analyze was invoked in that call
    d_calls,        \* number of route_and_analyze calls made
    d_raised,       \* handlers whose analyze raised in a call before that one
    now,            \* time.time() at the center
    heap,           \* the state dicts GeneralSafetyExpert.analyze created, by identity
    violation_states, \* GeneralSafetyExpert.violation_states: key -> identity of its dict
    th,             \* position and locals of analyze in each worker thread
    calls,          \* number of analyze calls begun
    occ,            \* per key, number of analyze calls returned
    overlapped,     \* whether two calls on one key ever ran at the same time
    last_call,      \* the analyze call that returned last
    advised,        \* per event, when route_and_analyze last returned a text for it
    d_when,         \* clock of the last route_and_analyze call and, for its event,
                    \* of the advisory before it
    policies,       \* the policy catalog handed to the edge detectors
    e_now,          \* time.time() on the edge node
    last_triggers,  \* SemanticEdgeEngine.last_triggers; 0 for a name not in the dict
    last_event_time, \* EdgeMotionDetector.last_event_time
    e_frames,       \* number of frames processed
    e_call,         \* the process_frame call that returned last: inputs and result
    e_fired,        \* the events returned so far, oldest first
    l_listing,      \* os.listdir(experts_dir): the expert modules in listing order
    l_config,       \* get_config("experts.<module>", -1) for each module
    l_import,       \* whether importing and instantiating the module raises
    l_pos,          \* position of load_experts in the listing
    l_experts,      \* ExpertManager.experts, in insertion order
    l_catalog,      \* result of the last get_aggregated_edge_policy, and the calls so far
    l_matched,      \* experts whose match_event was invoked
    l_analyzed,     \* experts whose analyze was invoked
    p_name,         \* event name the peer put into an event message
    p_image,        \* bytes of the encoded image the peer put into it
    p_out           \* what recv_stream_task made of the message

conf == <<pi_dict, num_nodes, target_fps, max_cmds, peer_events>>
mvars == <<running, node_status, frame_buffers, decoded, send_queues, conf,
           pc, rpc, spc, stale, stale_calls, conn, wire, task_out, sent_cmds, next_cmd, queued_down,
           ev, tts_text>>
dvars == <<d_experts, d_event, d_outcome, d_result, d_invoked, d_calls, d_raised>>
tvars == <<now, heap, violation_states, th, calls, occ, overlapped, last_call>>
avars == <<advised, d_when>>
evars == <<policies, e_now, last_triggers, last_event_time, e_frames, e_call, e_fired>>
lvars == <<l_listing, l_config, l_import, l_pos, l_experts, l_catalog, l_matched, l_analyzed>>
pvars == <<p_name, p_image, p_out>>
xvars == <<tvars, avars, evars, lvars, pvars>>
vars == <<mvars, dvars, xvars>>

----------------------------------------------------------------------------
(* Bounds *)

MaxCmds == 2
MaxFleetCmds == 1
MaxNodes == 32
MaxCalls == 2
MaxOcc == 3
MaxTime == 62
MaxFrames == 3
MaxEdgeTime == 18
MaxNameLen == 2
Epoch == 20
FrameWidth == 640
FrameHeight == 480

(* Node ids of the topology map handed to MultiPiManager *)
Fleet == {"1", "2"}
Single == {"1"}

Frames == {"frameA", "frameB"}
None == "None"

EventNames == {"Motion_Alert"}

EmptyStr == << >>
Space == <<" ">>

----------------------------------------------------------------------------
(* Rationals as <<numerator, denominator>>, denominator > 0 *)

RatLeq(a, b) == a[1] * b[2] <= b[1] * a[2]
RatEq(a, b) == a[1] * b[2] = b[1] * a[2]
RatMax(a, b) == IF RatLeq(a, b) THEN b ELSE a

AggregateFps == 30
MinFps == 1

TargetFpsUnshared(n) == <<AggregateFps, 1>>

(* max(1.0, 30.0 / num_nodes) if num_nodes > 0 else 30.0 *)
TargetFps(n) ==
    IF n > 0 THEN RatMax(<<MinFps, 1>>, <<AggregateFps, n>>) ELSE <<AggregateFps, 1>>

----------------------------------------------------------------------------
(* ExpertManager *)

(* What one analyze call does: raise, or return a string. *)
Returns(s) == [raises |-> FALSE, value |-> s]
Raises == [raises |-> TRUE, value |-> EmptyStr]

RECURSIVE Join(_, _)
(* sep.join(strs) *)
Join(sep, strs) ==
    IF strs = << >> THEN EmptyStr
    ELSE IF Len(strs) = 1 THEN strs[1]
    ELSE strs[1] \o sep \o Join(sep, Tail(strs))

RECURSIVE AnalyzeLoopKeepEmpty(_, _, _, _, _)
AnalyzeLoopKeepEmpty(experts, event_name, outcome, i, acc) ==
    IF i > Len(experts) THEN acc
    ELSE IF event_name \in experts[i].events
         THEN IF outcome[i].raises
              THEN AnalyzeLoopKeepEmpty(experts, event_name, outcome, i + 1,
                       [acc EXCEPT !.invoked = Append(@, i)])
              ELSE AnalyzeLoopKeepEmpty(experts, event_name, outcome, i + 1,
                       [results |-> Append(acc.results, outcome[i].value),
                        invoked |-> Append(acc.invoked, i)])
         ELSE AnalyzeLoopKeepEmpty(experts, event_name, outcome, i + 1, acc)

RECURSIVE AnalyzeLoopAbortOnRaise(_, _, _, _, _)
AnalyzeLoopAbortOnRaise(experts, event_name, outcome, i, acc) ==
    IF i > Len(experts) THEN acc
    ELSE IF event_name \in experts[i].events
         THEN IF outcome[i].raises
              THEN [acc EXCEPT !.invoked = Append(@, i)]
              ELSE AnalyzeLoopAbortOnRaise(experts, event_name, outcome, i + 1,
                       [results |-> IF outcome[i].value # EmptyStr
                                    THEN Append(acc.results, outcome[i].value)
                                    ELSE acc.results,
                        invoked |-> Append(acc.invoked, i)])
         ELSE AnalyzeLoopAbortOnRaise(experts, event_name, outcome, i + 1, acc)

RECURSIVE AnalyzeLoop(_, _, _, _, _)
(* for expert in self.experts.values(): if match_event: try analyze; if res: append *)
AnalyzeLoop(experts, event_name, outcome, i, acc) ==
    IF i > Len(experts) THEN acc
    ELSE IF event_name \in experts[i].events
         THEN IF outcome[i].raises
              THEN AnalyzeLoop(experts, event_name, outcome, i + 1,
                       [acc EXCEPT !.invoked = Append(@, i)])
              ELSE AnalyzeLoop(experts, event_name, outcome, i + 1,
                       [results |-> IF outcome[i].value # EmptyStr
                                    THEN Append(acc.results, outcome[i].value)
                                    ELSE acc.results,
                        invoked |-> Append(acc.invoked, i)])
         ELSE AnalyzeLoop(experts, event_name, outcome, i + 1, acc)

(* route_and_analyze: the returned string and the handlers it invoked *)
route_and_analyze(experts, event_name, outcome) ==
    LET r == AnalyzeLoop(experts, event_name, outcome, 1,
                         [results |-> << >>, invoked |-> << >>])
    IN [text |-> IF r.results # << >> THEN Join(Space, r.results) ELSE EmptyStr,
        invoked |-> r.invoked]

(* The registry the manager dispatches to: one handler that claims
   Motion_Alert and one that claims Equipment_Status_Sync. *)
Registry ==
    << [events |-> {"Motion_Alert"}], [events |-> {"Equipment_Status_Sync"}] >>

Verdicts == {EmptyStr, <<"A">>}
Outcomes == {Returns(s) : s \in Verdicts} \cup {Raises}

----------------------------------------------------------------------------
(* GeneralSafetyExpert.analyze: the violation state machine (lines 89-109).
   The manager runs route_and_analyze in worker threads (asyncio.to_thread),
   one per node whose event is under analysis, so calls of analyze can run at
   the same time.  A call is followed through the statements that read and
   write the shared dict: get (91), the test of count and last_alert (94, 102),
   the updates of the branch taken (96-98, 104-106), the store (108). *)

EscalationWindow == 30

(* Event descriptions; on the node path the description is the event name.
   Lab_Violation stands for a name that holds the violation marker that
   GeneralSafetyExpert.match_event looks for. *)
Keys == {"Motion_Alert", "Lab_Violation"}
Workers == {"w1", "w2"}

(* the clock is read when it is EscalationWindow - 1, EscalationWindow or
   EscalationWindow + 1 later than at an earlier reading, or at the same time *)
TickSteps == {EscalationWindow - 1, EscalationWindow, EscalationWindow + 1}

FirstAlert(k) == <<"warning", k>>
EscalatedAlert(k) == <<"severe_warning", k>>

NoDict == [first_seen |-> 0, last_alert |-> 0, count |-> 0]
(* {"first_seen": current_time, "last_alert": 0, "count": 0} *)
DefaultDict(t) == [first_seen |-> t, last_alert |-> 0, count |-> 0]

Snapshot(ref) ==
    [present |-> ref # 0,
     last_alert |-> IF ref # 0 THEN heap[ref].last_alert ELSE 0,
     count |-> IF ref # 0 THEN heap[ref].count ELSE 0]

IdleThread ==
    [pcw |-> "idle", key |-> None, current_time |-> 0, ref |-> 0, branch |-> "none",
     tts_alert |-> EmptyStr, before |-> Snapshot(0), solo |-> TRUE]

NoCall ==
    [key |-> None, current_time |-> 0, before |-> Snapshot(0), after |-> NoDict,
     tts_alert |-> EmptyStr, solo |-> TRUE]

(* GeneralSafetyExpert.__init__: self.violation_states = {} *)
TrackerIdle ==
    /\ now = 0
    /\ heap = [i \in 1..MaxOcc |-> NoDict]
    /\ violation_states = [k \in Keys |-> 0]
    /\ th = [w \in Workers |-> IdleThread]
    /\ calls = 0
    /\ occ = [k \in Keys |-> 0]
    /\ overlapped = FALSE
    /\ last_call = NoCall

Never == 0 - 1

(* no event was dispatched yet *)
AdvisedIdle ==
    /\ advised = [k \in Keys |-> Never]
    /\ d_when = [at |-> 0, prev |-> Never]

----------------------------------------------------------------------------
(* Edge detectors: SemanticEdgeEngine and EdgeMotionDetector *)

DefaultCooldown == 5
MotionCooldown == 15
AreaThreshold == 30000
CropMargin == 20

Classes == {"person", "bottle"}
EdgeEvents == {"E1", "E2"}

Max(a, b) == IF a >= b THEN a ELSE b
Min(a, b) == IF a <= b THEN a ELSE b

(* int(num / den) for den > 0: the fraction is cut off towards zero *)
Trunc(num, den) == IF num >= 0 THEN num \div den ELSE 0 - ((0 - num) \div den)

(* A policy of the catalog with the keys that either detector reads; a key
   that a policy dict lacks has the default of the policy.get that reads it *)
Policy(event_name, trigger_classes, condition, action, cooldown, trigger, padding) ==
    [event_name |-> event_name, trigger_classes |-> trigger_classes,
     condition |-> condition, action |-> action, cooldown |-> cooldown,
     trigger |-> trigger, padding |-> padding]

ClassPolicy(event_name, trigger_classes, condition, action, cooldown) ==
    Policy(event_name, trigger_classes, condition, action, cooldown, {}, <<0, 1>>)

MotionPolicy(event_name, padding) ==
    Policy(event_name, {}, "any", "full_frame", DefaultCooldown,
           {"Pixel_Motion_Active"}, padding)

Rect(x1, y1, x2, y2) == [x1 |-> x1, y1 |-> y1, x2 |-> x2, y2 |-> y2]

(* frame.copy() *)
FullFrame(w, h) == Rect(0, 0, w, h)

(* frame[max(0, y1 - 20):min(h, y2 + 20), max(0, x1 - 20):min(w, x2 + 20)] *)
SemanticCrop(b, w, h) ==
    Rect(Max(0, b.x1 - CropMargin), Max(0, b.y1 - CropMargin),
         Min(w, b.x2 + CropMargin), Min(h, b.y2 + CropMargin))

MotionCropNoClamp(bbox, pad, img_w, img_h) ==
    Rect(Trunc(bbox.x * pad[2] - bbox.w * pad[1], pad[2]),
         Trunc(bbox.y * pad[2] - bbox.h * pad[1], pad[2]),
         Min(img_w, Trunc(bbox.x * pad[2] + bbox.w * (pad[2] + pad[1]), pad[2])),
         Min(img_h, Trunc(bbox.y * pad[2] + bbox.h * (pad[2] + pad[1]), pad[2])))

(* x1 = max(0, int(x - w * pad)) ... y2 = min(img_h, int(y + h * (1 + pad)));
   pad is the fraction pad[1] / pad[2] *)
MotionCrop(bbox, pad, img_w, img_h) ==
    Rect(Max(0, Trunc(bbox.x * pad[2] - bbox.w * pad[1], pad[2])),
         Max(0, Trunc(bbox.y * pad[2] - bbox.h * pad[1], pad[2])),
         Min(img_w, Trunc(bbox.x * pad[2] + bbox.w * (pad[2] + pad[1]), pad[2])),
         Min(img_h, Trunc(bbox.y * pad[2] + bbox.h * (pad[2] + pad[1]), pad[2])))

(* condition == "all" and targets.issubset(detected_set), or
   condition == "any" and not targets.isdisjoint(detected_set) *)
IsMatch(p, detected_set) ==
    \/ p.condition = "all" /\ p.trigger_classes \subseteq detected_set
    \/ p.condition = "any" /\ p.trigger_classes \cap detected_set # {}

(* list(targets.intersection(detected_set))[0]: some element of the
   intersection, which one depends on the order of the set *)
FirstOf(inter, pick) == IF pick \in inter THEN pick ELSE CHOOSE c \in inter : TRUE

EdgeEvent(event_name, crop, policy, cooldown, detected_str) ==
    [event_name |-> event_name, crop |-> crop, policy |-> policy, cooldown |-> cooldown,
     detected_str |-> detected_str]

RECURSIVE SemanticLoop(_, _, _, _, _, _, _, _)
(* for policy in policies: cooldown check, match, last_triggers update and
   the action; an IndexError at list(...)[0] ends the call *)
SemanticLoop(ps, i, acc, detected_set, boxes_dict, pick, current_time, frame) ==
    IF i > Len(ps) \/ acc.raised THEN acc
    ELSE LET p == ps[i]
             inter == p.trigger_classes \cap detected_set
         IN IF current_time - acc.last_triggers[p.event_name] < p.cooldown
            THEN SemanticLoop(ps, i + 1, acc, detected_set, boxes_dict, pick,
                              current_time, frame)
            ELSE IF ~IsMatch(p, detected_set)
            THEN SemanticLoop(ps, i + 1, acc, detected_set, boxes_dict, pick,
                              current_time, frame)
            ELSE LET lt == [acc.last_triggers EXCEPT ![p.event_name] = current_time]
                 IN IF p.action = "crop_target" /\ inter = {}
                    THEN [last_triggers |-> lt, events |-> acc.events, raised |-> TRUE]
                    ELSE SemanticLoop(ps, i + 1,
                             [last_triggers |-> lt,
                              events |-> Append(acc.events,
                                  EdgeEvent(p.event_name,
                                      IF p.action = "crop_target"
                                      THEN SemanticCrop(boxes_dict[FirstOf(inter, pick)],
                                                        frame.w, frame.h)
                                      ELSE FullFrame(frame.w, frame.h),
                                      i, p.cooldown, detected_set)),
                              raised |-> FALSE],
                             detected_set, boxes_dict, pick, current_time, frame)

NoBbox == [x |-> 0, y |-> 0, w |-> 0, h |-> 0]
NoBox == Rect(0, 0, 0, 0)

NoEdgeCall ==
    [detector |-> None, at |-> 0, before |-> [e \in EdgeEvents |-> 0],
     detected |-> {}, box |-> NoBox, contours |-> << >>, bbox |-> NoBbox,
     pad |-> <<0, 1>>, frame |-> [w |-> 0, h |-> 0], events |-> << >>, raised |-> FALSE,
     passes |-> 0]

(* SemanticEdgeEngine.__init__ and EdgeMotionDetector.__init__, and the
   clock of the node, which reads seconds since 1970 *)
EdgeInit(catalog) ==
    /\ policies = catalog
    /\ e_now = Epoch
    /\ last_triggers = [e \in EdgeEvents |-> 0]
    /\ last_event_time = 0
    /\ e_frames = 0
    /\ e_call = NoEdgeCall
    /\ e_fired = << >>

EdgeIdle == EdgeInit(<< >>)

Firings(detector, events, at) ==
    [k \in 1..Len(events) |->
        [detector |-> detector, event_name |-> events[k].event_name, at |-> at,
         cooldown |-> events[k].cooldown]]

DetectionPassesPerPolicy(ps) == Len(ps)

(* if not policies: return []; otherwise results = self.model(frame, ...) once,
   ahead of the loop over the policies: the number of detection passes of a call *)
DetectionPasses(ps) == IF ps = << >> THEN 0 ELSE 1

(* SemanticEdgeEngine.process_frame(frame, policies) *)
SemanticFrame(detected_set, boxes_dict, pick, frame) ==
    /\ e_frames < MaxFrames
    /\ e_frames' = e_frames + 1
    /\ LET r == IF policies = << >>
                THEN [last_triggers |-> last_triggers, events |-> << >>, raised |-> FALSE]
                ELSE SemanticLoop(policies, 1,
                         [last_triggers |-> last_triggers, events |-> << >>,
                          raised |-> FALSE],
                         detected_set, boxes_dict, pick, e_now, frame)
           events == IF r.raised THEN << >> ELSE r.events
       IN /\ last_triggers' = r.last_triggers
          /\ e_call' = [detector |-> "semantic", at |-> e_now, before |-> last_triggers,
                        detected |-> detected_set, box |-> boxes_dict[pick],
                        contours |-> << >>,
                        bbox |-> NoBbox, pad |-> <<0, 1>>, frame |-> frame,
                        events |-> events, raised |-> r.raised,
                        passes |-> DetectionPasses(policies)]
          /\ e_fired' = e_fired \o Firings("semantic", events, e_now)
    /\ UNCHANGED <<policies, e_now, last_event_time>>

MotionPoliciesAny == 1..Len(policies)

(* The first policy with "Pixel_Motion_Active" in policy.get("trigger", []) *)
MotionPolicies == {i \in 1..Len(policies) : "Pixel_Motion_Active" \in policies[i].trigger}

(* The first contour with cv2.contourArea(contour) > 30000 *)
LargeContours(contours) == {i \in 1..Len(contours) : contours[i].area > AreaThreshold}

Lowest(S) == CHOOSE i \in S : \A j \in S : i <= j

(* EdgeMotionDetector.process_frame(frame, policies); cooldown is the
   detector's self.cooldown *)
MotionFrame(contours, frame, cooldown) ==
    /\ e_frames < MaxFrames
    /\ e_frames' = e_frames + 1
    /\ LET fires == /\ policies # << >>
                    /\ ~(e_now - last_event_time < cooldown)
                    /\ LargeContours(contours) # {}
                    /\ MotionPolicies # {}
           events ==
               IF fires
               THEN LET policy == policies[Lowest(MotionPolicies)]
                        motion_bbox == contours[Lowest(LargeContours(contours))].bbox
                    IN << EdgeEvent(policy.event_name,
                                    MotionCrop(motion_bbox, policy.padding,
                                               frame.w, frame.h),
                                    Lowest(MotionPolicies), cooldown, {}) >>
               ELSE << >>
       IN /\ last_event_time' = IF fires THEN e_now ELSE last_event_time
          /\ e_call' = [detector |-> "motion", at |-> e_now, before |-> last_triggers,
                        detected |-> {}, box |-> NoBox, contours |-> contours,
                        bbox |-> IF fires
                                 THEN contours[Lowest(LargeContours(contours))].bbox
                                 ELSE NoBbox,
                        pad |-> IF fires THEN policies[Lowest(MotionPolicies)].padding
                                ELSE <<0, 1>>,
                        frame |-> frame, events |-> events, raised |-> FALSE,
                        passes |-> 0]
          /\ e_fired' = e_fired \o Firings("motion", events, e_now)
    /\ UNCHANGED <<policies, e_now, last_triggers>>

(* time passes on the edge node *)
EdgeSteps == {3, MotionCooldown}

EdgeTick ==
    /\ \E d \in EdgeSteps : e_now + d <= MaxEdgeTime + Epoch /\ e_now' = e_now + d
    /\ UNCHANGED <<policies, last_triggers, last_event_time, e_frames, e_call, e_fired>>

----------------------------------------------------------------------------
(* ExpertManager.load_experts, get_aggregated_edge_policy and
   route_and_analyze over the experts that were loaded *)

(* Modules of the experts directory: one expert class each, with distinct
   expert names *)
Modules == {"general_safety_expert", "motion_expert", "danger_expert"}

EmptyPolicy == Policy(None, {}, None, None, 0, {}, <<0, 1>>)

(* get_edge_policy of the expert of module m *)
ModulePolicy(m) ==
    IF m = "general_safety_expert" THEN EmptyPolicy
    ELSE MotionPolicy("Motion_Alert", <<1, 5>>)

(* the events match_event accepts *)
ModuleEvents(m) ==
    IF m = "general_safety_expert" THEN Keys ELSE {"Motion_Alert"}

(* What get_config returns for a module's switch: -1 when nothing is
   recorded, else the recorded value as Config.get converts it *)
ConfigValues == {"-1", "0", "1", "False", "True"}

IsDisabledOnlyZero(is_enabled) == is_enabled = "0"

(* str(is_enabled) == "0" or is_enabled is False *)
IsDisabled(is_enabled) == is_enabled = "0" \/ is_enabled = "False"

Orderings(S) ==
    {q \in [1..Cardinality(S) -> S] : \A i, j \in 1..Cardinality(S) : q[i] = q[j] => i = j}

NoCatalog == [calls |-> 0, event_policies |-> << >>]

(* ExpertManager.__init__: self.experts = {} and the start of load_experts *)
LoadInit(listings, configs, imports) ==
    /\ l_listing \in listings
    /\ l_config \in configs
    /\ l_import \in imports
    /\ l_pos = 1
    /\ l_experts = << >>
    /\ l_catalog = NoCatalog
    /\ l_matched = {}
    /\ l_analyzed = {}

LoadIdle ==
    LoadInit({<< >>}, {[m \in Modules |-> "-1"]}, {[m \in Modules |-> FALSE]})

LoadDone == l_pos > Len(l_listing)

(* load_experts, one file of the listing: read the switch, record a module
   seen for the first time as enabled, skip a disabled one, import and
   register the others; an exception while importing is caught and logged *)
LoadFile ==
    /\ ~LoadDone
    /\ LET module_name == l_listing[l_pos]
           is_enabled == l_config[module_name]
       IN /\ l_config' = IF is_enabled = "-1"
                         THEN [l_config EXCEPT ![module_name] = "1"]
                         ELSE l_config
          /\ l_experts' = IF ~IsDisabled(is_enabled) /\ ~l_import[module_name]
                        THEN Append(l_experts, module_name)
                        ELSE l_experts
    /\ l_pos' = l_pos + 1
    /\ UNCHANGED <<l_listing, l_import, l_catalog, l_matched, l_analyzed>>

RECURSIVE AggregateLoopKeepEmpty(_, _, _)
AggregateLoopKeepEmpty(registry, i, acc) ==
    IF i > Len(registry) THEN acc
    ELSE AggregateLoopKeepEmpty(registry, i + 1,
             Append(acc, [expert |-> registry[i], policy |-> ModulePolicy(registry[i])]))

RECURSIVE AggregateLoop(_, _, _)
(* for expert in self.experts.values(): policy = expert.get_edge_policy();
   if policy: policies.append(policy) *)
AggregateLoop(registry, i, acc) ==
    IF i > Len(registry) THEN acc
    ELSE LET policy == ModulePolicy(registry[i])
         IN AggregateLoop(registry, i + 1,
                IF policy # EmptyPolicy
                THEN Append(acc, [expert |-> registry[i], policy |-> policy])
                ELSE acc)

(* get_aggregated_edge_policy(), as _node_handler calls it at every connect *)
get_aggregated_edge_policy ==
    /\ LoadDone
    /\ l_catalog.calls < MaxCalls
    /\ l_catalog' = [calls |-> l_catalog.calls + 1,
                     event_policies |-> AggregateLoop(l_experts, 1, << >>)]
    /\ UNCHANGED <<l_listing, l_config, l_import, l_pos, l_experts, l_matched, l_analyzed>>

LoadedHandlers == [i \in 1..Len(l_experts) |-> [events |-> ModuleEvents(l_experts[i])]]

LoadOutcomes == {Returns(<<"A">>), Raises}

(* route_and_analyze(event_name, frame, context) over the loaded experts:
   match_event of every expert, analyze of the matching ones *)
RouteLoaded(event_name) ==
    /\ LoadDone
    /\ \E outcome \in [1..Len(l_experts) -> LoadOutcomes] :
         LET r == route_and_analyze(LoadedHandlers, event_name, outcome)
         IN l_analyzed' = l_analyzed \cup {l_experts[r.invoked[k]] : k \in 1..Len(r.invoked)}
    /\ l_matched' = l_matched \cup {l_experts[i] : i \in 1..Len(l_experts)}
    /\ UNCHANGED <<l_listing, l_config, l_import, l_pos, l_experts, l_catalog>>

----------------------------------------------------------------------------
(* Event messages as texts: a text is a sequence of characters, the verb of
   the message counting as one character *)

EventPrefixes == {"PI_EXPERT_EVENT", "PI_YOLO_EVENT"}

(* characters of event names: one of the base64 alphabet, one outside it, and
   the colon *)
NameChars == {"A", "_", ":"}

(* the six-bit values of the base64 characters used *)
B64Alphabet == {"A", "B", "E", "Q"}
B64Value(c) == CASE c = "A" -> 0 [] c = "B" -> 1 [] c = "E" -> 4 [] c = "Q" -> 16
B64Char(v) == CHOOSE c \in B64Alphabet : B64Value(c) = v

(* base64.b64encode of no byte or of three bytes *)
b64encode(bytes) ==
    IF bytes = << >> THEN << >>
    ELSE << B64Char(bytes[1] \div 4),
            B64Char((bytes[1] % 4) * 16 + bytes[2] \div 16),
            B64Char((bytes[2] % 16) * 4 + bytes[3] \div 64),
            B64Char(bytes[3] % 64) >>

RECURSIVE DecodeBlocks(_)
DecodeBlocks(cs) ==
    IF cs = << >> THEN << >>
    ELSE LET v == [i \in 1..4 |-> B64Value(cs[i])]
         IN << (v[1] * 4 + v[2] \div 16) % 256,
               ((v[2] % 16) * 16 + v[3] \div 4) % 256,
               ((v[3] % 4) * 64 + v[4]) % 256 >>
            \o DecodeBlocks(SubSeq(cs, 5, Len(cs)))

InAlphabet(c) == c \in B64Alphabet

(* base64.b64decode(s): characters outside the alphabet are discarded
   (validate is False), a length that is no multiple of four raises
   binascii.Error *)
b64decode(s) ==
    LET cs == SelectSeq(s, InAlphabet)
    IN IF Len(cs) % 4 # 0 THEN Raises ELSE Returns(DecodeBlocks(cs))

(* str.split(sep, maxsplit) *)
RECURSIVE split(_, _, _)
split(s, sep, maxsplit) ==
    LET at == {i \in 1..Len(s) : s[i] = sep}
    IN IF maxsplit = 0 \/ at = {} THEN << s >>
       ELSE LET i == CHOOSE j \in at : \A k \in at : j <= k
            IN << SubSeq(s, 1, i - 1) >>
               \o split(SubSeq(s, i + 1, Len(s)), sep, maxsplit - 1)

SplitOnce(data) == split(data, ":", 1)

(* data.split(":", 2) *)
SplitEvent(data) == split(data, ":", 2)

(* the message <prefix>:<eventName>:<base64 image> *)
EventText(prefix, name, image) ==
    << prefix, ":" >> \o name \o << ":" >> \o b64encode(image)

NoParse == [done |-> "no", event_str |-> << >>, img_bytes |-> << >>]

(* the event branch of recv_stream_task up to the dispatch: the prefix test,
   _, event_str, b64_img = data.split(":", 2) (ValueError unless there are
   three parts), img_bytes = base64.b64decode(b64_img); an exception is caught
   and the message dropped, otherwise event_str and the decoded image go to
   route_and_analyze *)
ParseEvent(data) ==
    IF ~(Len(data) >= 2 /\ data[1] \in EventPrefixes /\ data[2] = ":")
    THEN [done |-> "ignored", event_str |-> << >>, img_bytes |-> << >>]
    ELSE LET parts == SplitEvent(data)
         IN IF Len(parts) # 3 \/ b64decode(parts[Len(parts)]).raises
            THEN [done |-> "raised", event_str |-> << >>, img_bytes |-> << >>]
            ELSE [done |-> "dispatched", event_str |-> parts[2],
                  img_bytes |-> b64decode(parts[3]).value]

ParseInit(names, images) ==
    /\ p_name \in names
    /\ p_image \in images
    /\ p_out = NoParse

ParseIdle == ParseInit({<< >>}, {<< >>})

(* the message arrives at recv_stream_task *)
RecvEventText(prefix) ==
    /\ p_out = NoParse
    /\ p_out' = ParseEvent(EventText(prefix, p_name, p_image))
    /\ UNCHANGED <<p_name, p_image>>

OthersIdle == TrackerIdle /\ AdvisedIdle /\ EdgeIdle /\ LoadIdle /\ ParseIdle

(* time passes *)
Tick ==
    /\ \E d \in TickSteps : now + d <= MaxTime /\ now' = now + d
    /\ UNCHANGED <<heap, violation_states, th, calls, occ, overlapped, last_call>>

StateKeyShared(event_desc) == "Motion_Alert"

(* self.violation_states.get(event_desc, ...) and
   self.violation_states[event_desc] = state: the key of a state is the
   description of the event *)
StateKey(event_desc) == event_desc

InFlight(k) == {w \in Workers : th[w].pcw # "idle" /\ th[w].key = k}

(* current_time = time.time()
   state = self.violation_states.get(event_desc, {...default...}) *)
TrackerRead(w, k) ==
    /\ th[w].pcw = "idle"
    /\ calls < MaxOcc
    /\ calls' = calls + 1
    /\ LET fresh == violation_states[StateKey(k)] = 0
           ref == IF fresh THEN calls + 1 ELSE violation_states[StateKey(k)]
       IN /\ heap' = IF fresh THEN [heap EXCEPT ![ref] = DefaultDict(now)] ELSE heap
          /\ th' = [x \in Workers |->
                      IF x = w
                      THEN [pcw |-> "read", key |-> k, current_time |-> now,
                            ref |-> ref, branch |-> "none", tts_alert |-> EmptyStr,
                            before |-> Snapshot(violation_states[StateKey(k)]),
                            solo |-> InFlight(k) = {}]
                      ELSE IF x \in InFlight(k) THEN [th[x] EXCEPT !.solo = FALSE]
                      ELSE th[x]]
    /\ overlapped' = (overlapped \/ InFlight(k) # {})
    /\ UNCHANGED <<now, violation_states, occ, last_call>>

TrackerTestNoWindow(w) ==
    /\ th[w].pcw = "read"
    /\ th' = [th EXCEPT ![w].pcw = "tested",
                        ![w].branch = IF heap[th[w].ref].count = 0 THEN "first"
                                      ELSE "again"]
    /\ UNCHANGED <<now, heap, violation_states, calls, occ, overlapped, last_call>>

(* if state["count"] == 0: ... elif current_time - state["last_alert"] > 30.0: ... *)
TrackerTest(w) ==
    /\ th[w].pcw = "read"
    /\ th' = [th EXCEPT ![w].pcw = "tested",
                        ![w].branch =
                            IF heap[th[w].ref].count = 0 THEN "first"
                            ELSE IF th[w].current_time - heap[th[w].ref].last_alert
                                        > EscalationWindow
                            THEN "again" ELSE "none"]
    /\ UNCHANGED <<now, heap, violation_states, calls, occ, overlapped, last_call>>

(* the branch taken: tts_alert = ...; state["last_alert"] = current_time;
   state["count"] += 1; neither branch leaves tts_alert = "" and state as it is *)
TrackerMutate(w) ==
    /\ th[w].pcw = "tested"
    /\ th' = [th EXCEPT ![w].pcw = "mutated",
                        ![w].tts_alert =
                            CASE th[w].branch = "first" -> FirstAlert(th[w].key)
                              [] th[w].branch = "again" -> EscalatedAlert(th[w].key)
                              [] OTHER -> EmptyStr]
    /\ heap' = IF th[w].branch = "none" THEN heap
               ELSE [heap EXCEPT ![th[w].ref].last_alert = th[w].current_time,
                                 ![th[w].ref].count = @ + 1]
    /\ UNCHANGED <<now, violation_states, calls, occ, overlapped, last_call>>

(* self.violation_states[event_desc] = state; return tts_alert *)
TrackerStore(w) ==
    /\ th[w].pcw = "mutated"
    /\ violation_states' = [violation_states EXCEPT ![StateKey(th[w].key)] = th[w].ref]
    /\ occ' = [occ EXCEPT ![th[w].key] = @ + 1]
    /\ last_call' = [key |-> th[w].key, current_time |-> th[w].current_time,
                     before |-> th[w].before, after |-> heap[th[w].ref],
                     tts_alert |-> th[w].tts_alert, solo |-> th[w].solo]
    /\ th' = [th EXCEPT ![w] = IdleThread]
    /\ UNCHANGED <<now, heap, calls, overlapped>>

----------------------------------------------------------------------------
(* Wire messages, center to edge *)

(* verb, and the fields a verb uses: the rate of SET_FPS, the number of the
   send_to_node call of a queued command, the text of an advisory and the node
   whose event it answers *)
Msg(verb, rate, id, origin, text) ==
    [verb |-> verb, rate |-> rate, id |-> id, origin |-> origin, text |-> text]
NoMsg == Msg("none", <<0, 1>>, 0, None, EmptyStr)
SetFps(rate) == Msg("SET_FPS", rate, 0, None, EmptyStr)
SyncConfig == Msg("SYNC_CONFIG", <<0, 1>>, 0, None, EmptyStr)
SyncPolicy == Msg("SYNC_POLICY", <<0, 1>>, 0, None, EmptyStr)
Command(k) == Msg("COMMAND", <<0, 1>>, k, None, EmptyStr)
Tts(origin, text) == Msg("TTS", <<0, 1>>, 0, origin, text)

(* Messages edge to center, as recv_stream_task tells them apart: a voice
   command, a text with another prefix, an event message whose parsing raises
   (no second colon, base64 with wrong padding), an event message with its
   event name and what cv2.imdecode makes of its payload (an image, or None
   when the bytes are no image), a binary frame that decodes, one that does
   not, and an empty binary message *)
InMsg(kind, body, image) == [kind |-> kind, body |-> body, image |-> image]
Inbound ==
    {InMsg("voice", None, None), InMsg("unknown", None, None),
     InMsg("event_bad", None, None), InMsg("frame_bad", None, None),
     InMsg("frame_empty", None, None)}
    \cup {InMsg("event", e, img) : e \in EventNames, img \in {"image", None}}
    \cup {InMsg("frame", f, None) : f \in Frames}

(* An event message read from the connection: event_str, expert_frame, and
   what agent.is_active and self.running were when it was read *)
NoEvent == [name |-> None, frame |-> None, agent_active |-> FALSE, stopped |-> FALSE]
EventRead(m, agent_active, stopped) ==
    [name |-> m.body, frame |-> m.image, agent_active |-> agent_active,
     stopped |-> stopped]

IsOpen(n) == conn[n] = "open"

(* asyncio.Queue.put_nowait *)
QueuePutFront(q, text) == <<text>> \o q
QueuePut(q, text) == Append(q, text)

----------------------------------------------------------------------------
(* MultiPiManager.__init__ *)

ManagerInit(nodes, n, cmds, events) ==
    /\ pi_dict = nodes
    /\ max_cmds = cmds
    /\ peer_events = events
    /\ running = TRUE
    /\ node_status = [p \in pi_dict |-> "connecting"]
    /\ frame_buffers = [p \in pi_dict |-> None]
    /\ decoded = [p \in pi_dict |-> None]
    /\ send_queues = [p \in pi_dict |-> << >>]
    /\ num_nodes = n
    /\ target_fps = TargetFps(n)
    /\ pc = [p \in pi_dict |-> "start"]
    /\ rpc = [p \in pi_dict |-> "none"]
    /\ spc = [p \in pi_dict |-> "none"]
    /\ stale = [p \in pi_dict |-> 0]
    /\ stale_calls = [p \in pi_dict |-> 0]
    /\ conn = [p \in pi_dict |-> "none"]
    /\ wire = [p \in pi_dict |-> << >>]
    /\ task_out = [p \in pi_dict |-> NoMsg]
    /\ sent_cmds = [p \in pi_dict |-> << >>]
    /\ next_cmd = 1
    /\ queued_down = {}
    /\ ev = [p \in pi_dict |-> NoEvent]
    /\ tts_text = [p \in pi_dict |-> EmptyStr]

DispatchIdle ==
    /\ d_experts = Registry
    /\ d_event = None
    /\ d_outcome = << >>
    /\ d_result = EmptyStr
    /\ d_invoked = << >>
    /\ d_calls = 0
    /\ d_raised = {}

Init == ManagerInit(Single, Cardinality(Single), MaxCmds, TRUE) /\ DispatchIdle /\ OthersIdle

----------------------------------------------------------------------------
(* _node_handler *)

WhileRunningKeepStatus(n) ==
    /\ pc' = [pc EXCEPT ![n] = IF running THEN "connect" ELSE "done"]
    /\ UNCHANGED node_status

(* while self.running: self.node_status[pi_id] = "connecting", up to the await
   of websockets.connect; the handler returns when running is cleared *)
WhileRunning(n) ==
    IF running
    THEN /\ node_status' = [node_status EXCEPT ![n] = "connecting"]
         /\ pc' = [pc EXCEPT ![n] = "connect"]
    ELSE /\ pc' = [pc EXCEPT ![n] = "done"]
         /\ UNCHANGED node_status

(* Commands that can still reach the queue of node n *)
CommandsLeft(n) == Len(send_queues[n]) + (max_cmds + 1 - next_cmd)

(* The async with closes the websocket when control leaves it *)
CloseConnection(n, blocked) ==
    /\ conn' = [conn EXCEPT ![n] = "none"]
    /\ stale' = [stale EXCEPT ![n] = IF blocked /\ @ < CommandsLeft(n) THEN @ + 1 ELSE @]
    /\ stale_calls' = [stale_calls EXCEPT ![n] = IF rpc[n] = "analyze" THEN @ + 1 ELSE @]
    /\ rpc' = [rpc EXCEPT ![n] = "none"]
    /\ spc' = [spc EXCEPT ![n] = "none"]
    /\ ev' = [ev EXCEPT ![n] = NoEvent]
    /\ tts_text' = [tts_text EXCEPT ![n] = EmptyStr]
    /\ wire' = [wire EXCEPT ![n] = << >>]
    /\ task_out' = [task_out EXCEPT ![n] = NoMsg]

ExceptAllOffline(n, blocked) ==
    /\ IF running
       THEN /\ node_status' = [p \in pi_dict |-> "offline"]
            /\ pc' = [pc EXCEPT ![n] = "sleep"]
       ELSE WhileRunning(n)
    /\ CloseConnection(n, blocked)

ExceptRaise(n, blocked) ==
    /\ pc' = [pc EXCEPT ![n] = "done"]
    /\ UNCHANGED node_status
    /\ CloseConnection(n, blocked)

ExceptSkipOffline(n, blocked) ==
    /\ IF running
       THEN /\ node_status' = [node_status EXCEPT ![n] = "connecting"]
            /\ pc' = [pc EXCEPT ![n] = "sleep"]
       ELSE WhileRunning(n)
    /\ CloseConnection(n, blocked)

(* An exception leaves the async with and reaches except Exception:
   if self.running: status = offline; await asyncio.sleep(5); otherwise the
   while loop is tested at once.  asyncio.gather does not cancel the other task
   when one raises: a send_command_task blocked in get() (blocked) stays
   blocked on the node's queue, and is counted as long as a command can still
   reach it; a recv_stream_task of the closed connection that awaits the
   worker thread of an analysis goes on awaiting it (stale_calls), and ends at
   its next send or read on the closed websocket. *)
Except(n, blocked) ==
    /\ IF running
       THEN /\ node_status' = [node_status EXCEPT ![n] = "offline"]
            /\ pc' = [pc EXCEPT ![n] = "sleep"]
       ELSE WhileRunning(n)
    /\ CloseConnection(n, blocked)

(* start() gathers one _node_handler per node: the handler's first step *)
HandlerStart(n) ==
    /\ pc[n] = "start"
    /\ WhileRunning(n)
    /\ UNCHANGED <<running, frame_buffers, decoded, send_queues, conf, rpc, spc, stale, stale_calls,
                   conn, wire, task_out, sent_cmds, next_cmd, queued_down, ev, tts_text, dvars, xvars>>

(* the connect succeeds: status = online, then the first handshake send *)
ConnectOK(n) ==
    /\ pc[n] = "connect"
    /\ node_status' = [node_status EXCEPT ![n] = "online"]
    /\ conn' = [conn EXCEPT ![n] = "open"]
    /\ wire' = [wire EXCEPT ![n] = << >>]
    /\ pc' = [pc EXCEPT ![n] = "hs_fps"]
    /\ UNCHANGED <<task_out, running, frame_buffers, decoded, send_queues, conf, rpc, spc,
                   stale, stale_calls, sent_cmds, next_cmd, queued_down, ev, tts_text, dvars, xvars>>

(* the connect raises (refused, timed out) *)
ConnectFail(n) ==
    /\ pc[n] = "connect"
    /\ Except(n, FALSE)
    /\ UNCHANGED <<running, frame_buffers, decoded, send_queues, conf, sent_cmds, next_cmd, queued_down,
                   dvars, xvars>>

HandshakeMsg(n) ==
    CASE pc[n] = "hs_fps" -> SetFps(target_fps)
      [] pc[n] = "hs_config" -> SyncConfig
      [] pc[n] = "hs_policy" -> SyncPolicy

HandshakeSkipPolicy(n) ==
    CASE pc[n] = "hs_fps" -> "hs_config"
      [] pc[n] = "hs_config" -> "gather"
      [] pc[n] = "hs_policy" -> "gather"

(* the statement after each handshake send; after the last one
   asyncio.gather(recv_stream_task(), send_command_task()) *)
HandshakeNext(n) ==
    CASE pc[n] = "hs_fps" -> "hs_config"
      [] pc[n] = "hs_config" -> "hs_policy"
      [] pc[n] = "hs_policy" -> "gather"

(* await ws.send(SET_FPS); await ws.send(SYNC_CONFIG); await ws.send(SYNC_POLICY);
   then gather starts the two tasks: recv_stream_task waits for a message,
   send_command_task tests running and waits in get() *)
HandshakeSend(n) ==
    /\ pc[n] \in {"hs_fps", "hs_config", "hs_policy"}
    /\ IF IsOpen(n)
       THEN /\ wire' = [wire EXCEPT ![n] = Append(@, HandshakeMsg(n))]
            /\ pc' = [pc EXCEPT ![n] = HandshakeNext(n)]
            /\ IF HandshakeNext(n) = "gather"
               THEN /\ rpc' = [rpc EXCEPT ![n] = "wait"]
                    /\ spc' = [spc EXCEPT ![n] = IF running THEN "wait" ELSE "done"]
               ELSE UNCHANGED <<rpc, spc>>
            /\ UNCHANGED <<node_status, conn, stale, stale_calls, ev, tts_text, task_out>>
       ELSE Except(n, FALSE)
    /\ UNCHANGED <<running, frame_buffers, decoded, send_queues, conf, sent_cmds, next_cmd, queued_down,
                   dvars, xvars>>

(* both tasks returned: gather returns, the async with closes the websocket,
   the while loop tests running again *)
GatherReturn(n) ==
    /\ pc[n] = "gather"
    /\ rpc[n] = "done" /\ spc[n] = "done"
    /\ WhileRunning(n)
    /\ CloseConnection(n, FALSE)
    /\ UNCHANGED <<running, frame_buffers, decoded, send_queues, conf, sent_cmds, next_cmd, queued_down,
                   dvars, xvars>>

(* await asyncio.sleep(5) returns *)
SleepDone(n) ==
    /\ pc[n] = "sleep"
    /\ WhileRunning(n)
    /\ UNCHANGED <<running, frame_buffers, decoded, send_queues, conf, rpc, spc, stale, stale_calls,
                   conn, wire, task_out, sent_cmds, next_cmd, queued_down, ev, tts_text, dvars, xvars>>

----------------------------------------------------------------------------
(* recv_stream_task *)

(* async for data in ws, on a closed connection: the iteration ends normally
   after a clean close (ConnectionClosedOK) and raises after an abnormal one,
   which gather propagates to the handler *)
RecvClosed(n) ==
    /\ pc[n] = "gather"
    /\ rpc[n] = "wait"
    /\ conn[n] \in {"closed_ok", "closed_err"}
    /\ IF conn[n] = "closed_ok"
       THEN /\ rpc' = [rpc EXCEPT ![n] = "done"]
            /\ UNCHANGED <<node_status, pc, conn, stale, stale_calls, spc, ev, tts_text, wire,
                           task_out>>
       ELSE Except(n, spc[n] = "wait")
    /\ UNCHANGED <<running, frame_buffers, decoded, send_queues, conf, sent_cmds, next_cmd, queued_down,
                   dvars, xvars>>

(* What recv_stream_task does with a decoded event: while the voice
   assistant is active the event is skipped and the task reads the next
   message, otherwise the analysis is started *)
AfterEventIgnoreAgent(agent_active) == "analyze"

AfterEventBreak(agent_active) == IF agent_active THEN "done" ELSE "analyze"

AfterEvent(agent_active) == IF agent_active THEN "wait" ELSE "analyze"

(* one message arrives: if not self.running: break; a voice command is handed
   to the voice agent; an event is parsed (a failure is caught and the message
   dropped), skipped while the voice agent is active, else handed to a worker
   thread; any other text is skipped; binary data replaces the frame buffer
   when it decodes.  cv2.imdecode of an empty buffer returns None or raises
   cv2.error, depending on the OpenCV build; nothing in the task catches it,
   so gather propagates it to the handler.  A peer that sends nothing
   (peer_events false) delivers no message. *)
(* frame = cv2.imdecode(arr, cv2.IMREAD_COLOR) of a binary message: the image,
   or None when the bytes are no image *)
imdecode(m) == IF m.kind = "frame" THEN m.body ELSE None

StoreFrameAlways(n, frame) ==
    frame_buffers' = [frame_buffers EXCEPT ![n] = frame]

(* if frame is not None: self.frame_buffers[pi_id] = frame *)
StoreFrame(n, frame) ==
    IF frame # None
    THEN frame_buffers' = [frame_buffers EXCEPT ![n] = frame]
    ELSE UNCHANGED frame_buffers

RecvOne(n, m, agent_active, decode_raises) ==
    /\ peer_events
    /\ decode_raises => running /\ m.kind = "frame_empty"
    /\ decoded' = [decoded EXCEPT ![n] = IF running /\ m.kind = "frame" THEN m.body ELSE @]
    /\ IF decode_raises
       THEN /\ Except(n, spc[n] = "wait")
            /\ UNCHANGED frame_buffers
       ELSE /\ IF ~running
               THEN /\ rpc' = [rpc EXCEPT ![n] = "done"]
                    /\ ev' = [ev EXCEPT ![n] = IF m.kind = "event"
                                               THEN EventRead(m, agent_active, TRUE)
                                               ELSE NoEvent]
                    /\ UNCHANGED frame_buffers
               ELSE IF m.kind = "event"
               THEN /\ rpc' = [rpc EXCEPT ![n] = AfterEvent(agent_active)]
                    /\ ev' = [ev EXCEPT ![n] = EventRead(m, agent_active, FALSE)]
                    /\ UNCHANGED frame_buffers
               ELSE IF m.kind \in {"frame", "frame_bad", "frame_empty"}
               THEN /\ StoreFrame(n, imdecode(m))
                    /\ ev' = [ev EXCEPT ![n] = NoEvent]
                    /\ UNCHANGED rpc
               ELSE /\ ev' = [ev EXCEPT ![n] = NoEvent]
                    /\ UNCHANGED <<rpc, frame_buffers>>
            /\ UNCHANGED <<node_status, pc, spc, stale, stale_calls, conn, wire, task_out,
                           tts_text>>

(* tts_text = await asyncio.to_thread(expert_manager.route_and_analyze, ...):
   the analysis runs in a worker thread and the task that awaits it is
   suspended, so the event loop is never held by an analysis and goes on
   running the other tasks (had the task called route_and_analyze itself,
   the loop would run nothing else until it returned) *)
LoopHeldByOtherAnalysis(n) == \E o \in pi_dict \ {n} : rpc[o] = "analyze"

LoopHeldByOwnAnalysis(n) == rpc[n] = "analyze"

LoopHeld(n) == FALSE

RecvMsg(n) ==
    /\ pc[n] = "gather"
    /\ rpc[n] = "wait"
    /\ IsOpen(n)
    /\ ~LoopHeld(n)
    /\ \E m \in Inbound, agent_active \in BOOLEAN, decode_raises \in BOOLEAN :
         RecvOne(n, m, agent_active, decode_raises)
    /\ UNCHANGED <<running, send_queues, conf, sent_cmds, next_cmd, queued_down, dvars, xvars>>

(* the worker thread returns: tts_text = await asyncio.to_thread(
   expert_manager.route_and_analyze, event_str, expert_frame, context) *)
AnalyzeDone(n) ==
    /\ pc[n] = "gather"
    /\ rpc[n] = "analyze"
    /\ \E outcome \in [1..Len(Registry) -> Outcomes] :
         tts_text' = [tts_text EXCEPT ![n] = route_and_analyze(Registry, ev[n].name, outcome).text]
    /\ rpc' = [rpc EXCEPT ![n] = "advise"]
    /\ ev' = [ev EXCEPT ![n] = NoEvent]
    /\ UNCHANGED <<running, node_status, frame_buffers, decoded, send_queues, conf, pc, spc,
                   stale, stale_calls, conn, wire, task_out, sent_cmds, next_cmd, queued_down, dvars, xvars>>

SendAdvisoryAlways(n) ==
    /\ pc[n] = "gather"
    /\ rpc[n] = "advise"
    /\ IF IsOpen(n)
       THEN task_out' = [task_out EXCEPT ![n] = Tts(n, tts_text[n])]
       ELSE UNCHANGED task_out
    /\ tts_text' = [tts_text EXCEPT ![n] = EmptyStr]
    /\ rpc' = [rpc EXCEPT ![n] = "wait"]
    /\ UNCHANGED <<running, node_status, frame_buffers, decoded, send_queues, conf, pc, spc,
                   stale, stale_calls, conn, wire, sent_cmds, next_cmd, queued_down, ev, dvars, xvars>>

SendAdvisoryBroadcast(n) ==
    /\ pc[n] = "gather"
    /\ rpc[n] = "advise"
    /\ IF tts_text[n] # EmptyStr
       THEN task_out' = [p \in pi_dict |-> IF IsOpen(p) THEN Tts(n, tts_text[n])
                                                          ELSE task_out[p]]
       ELSE UNCHANGED task_out
    /\ tts_text' = [tts_text EXCEPT ![n] = EmptyStr]
    /\ rpc' = [rpc EXCEPT ![n] = "wait"]
    /\ UNCHANGED <<running, node_status, frame_buffers, decoded, send_queues, conf, pc, spc,
                   stale, stale_calls, conn, wire, sent_cmds, next_cmd, queued_down, ev, dvars, xvars>>

(* if tts_text: await ws.send(f"CMD:TTS:{tts_text}"): transmitted on the
   connection of this task; on a closed connection send raises, which the
   except of the event branch catches.  tts_text is not read again before the
   next event assigns it. *)
SendAdvisory(n) ==
    /\ pc[n] = "gather"
    /\ rpc[n] = "advise"
    /\ IF tts_text[n] # EmptyStr /\ IsOpen(n)
       THEN task_out' = [task_out EXCEPT ![n] = Tts(n, tts_text[n])]
       ELSE UNCHANGED task_out
    /\ tts_text' = [tts_text EXCEPT ![n] = EmptyStr]
    /\ rpc' = [rpc EXCEPT ![n] = "wait"]
    /\ UNCHANGED <<running, node_status, frame_buffers, decoded, send_queues, conf, pc, spc,
                   stale, stale_calls, conn, wire, sent_cmds, next_cmd, queued_down, ev, dvars, xvars>>

(* the worker thread of an analysis begun on a connection that was closed
   since returns: ws.send of the advisory, if there is one, raises on the
   closed websocket, the except of the event branch catches it, and the
   iteration over the closed websocket ends the task *)
StaleAnalyzeDone(n) ==
    /\ stale_calls[n] > 0
    /\ stale_calls' = [stale_calls EXCEPT ![n] = @ - 1]
    /\ UNCHANGED <<running, node_status, frame_buffers, decoded, send_queues, conf,
                   pc, rpc, spc, stale, conn, wire, task_out, sent_cmds, next_cmd, queued_down,
                   ev, tts_text, dvars, xvars>>

----------------------------------------------------------------------------
(* send_command_task *)

(* msg = await self.send_queues[pi_id].get(); await ws.send(msg); then
   while self.running again.  On a closed websocket send raises, which gather
   propagates to the handler. *)
SendCommand(n) ==
    /\ pc[n] = "gather"
    /\ spc[n] = "wait"
    /\ send_queues[n] # << >>
    /\ ~LoopHeld(n)
    /\ send_queues' = [send_queues EXCEPT ![n] = Tail(@)]
    /\ queued_down' = queued_down \ {Head(send_queues[n])}
    /\ IF IsOpen(n)
       THEN /\ task_out' = [task_out EXCEPT ![n] = Command(Head(send_queues[n]))]
            /\ sent_cmds' = [sent_cmds EXCEPT ![n] = Append(@, Head(send_queues[n]))]
            /\ spc' = [spc EXCEPT ![n] = IF running THEN "wait" ELSE "done"]
            /\ UNCHANGED <<node_status, pc, conn, stale, stale_calls, rpc, ev, tts_text, wire>>
       ELSE /\ Except(n, FALSE)
            /\ UNCHANGED sent_cmds
    /\ UNCHANGED <<running, frame_buffers, decoded, conf, next_cmd, dvars, xvars>>

(* the same two lines in a task left over from a closed connection: get()
   returns a command, ws.send raises on the closed websocket, the task ends *)
StaleSendCommand(n) ==
    /\ stale[n] > 0
    /\ send_queues[n] # << >>
    /\ send_queues' = [send_queues EXCEPT ![n] = Tail(@)]
    /\ stale' = [stale EXCEPT ![n] = @ - 1]
    /\ queued_down' = queued_down \ {Head(send_queues[n])}
    /\ UNCHANGED <<stale_calls, running, node_status, frame_buffers, decoded, conf, pc, rpc, spc, conn,
                   wire, task_out, sent_cmds, next_cmd, ev, tts_text, dvars, xvars>>

----------------------------------------------------------------------------
(* Callers of the manager, and the peers *)

(* an id that is no key of the topology *)
UnknownNode == "9"

QueuesOfAll(pi_id) == DOMAIN send_queues

(* if pi_id in self.send_queues: the queue that the call writes, none for an
   id that is no key of the dict *)
QueuesOf(pi_id) == {pi_id} \cap DOMAIN send_queues

(* send_to_node(pi_id, text): the text of the k-th call is k *)
send_to_node(pi_id) ==
    /\ next_cmd <= max_cmds
    /\ send_queues' = [p \in pi_dict |-> IF p \in QueuesOf(pi_id)
                                         THEN QueuePut(send_queues[p], next_cmd)
                                         ELSE send_queues[p]]
    /\ next_cmd' = next_cmd + 1
    /\ queued_down' = IF \E p \in QueuesOf(pi_id) : node_status[p] \in {"connecting", "offline"}
                      THEN queued_down \cup {next_cmd} ELSE queued_down
    /\ UNCHANGED <<running, node_status, frame_buffers, decoded, conf, pc, rpc, spc, stale, stale_calls,
                   conn, wire, task_out, sent_cmds, ev, tts_text, dvars, xvars>>

(* stop() *)
stop ==
    /\ running
    /\ running' = FALSE
    /\ UNCHANGED <<node_status, frame_buffers, decoded, send_queues, conf, pc, rpc, spc,
                   stale, stale_calls, conn, wire, task_out, sent_cmds, next_cmd, queued_down, ev, tts_text, dvars, xvars>>

(* the peer closes the connection, with close code 1000 or abnormally
   (reset, protocol error, timeout) *)
PeerClose(n) ==
    /\ IsOpen(n)
    /\ \E how \in {"closed_ok", "closed_err"} : conn' = [conn EXCEPT ![n] = how]
    /\ UNCHANGED <<running, node_status, frame_buffers, decoded, send_queues, conf, pc, rpc,
                   spc, stale, stale_calls, wire, task_out, sent_cmds, next_cmd, queued_down, ev, tts_text,
                   dvars, xvars>>

----------------------------------------------------------------------------

(* the steps of the handlers and their tasks, of the callers and of the peers *)
TaskSteps ==
    \/ \E n \in pi_dict : HandlerStart(n)
    \/ \E n \in pi_dict : ConnectOK(n)
    \/ \E n \in pi_dict : ConnectFail(n)
    \/ \E n \in pi_dict : HandshakeSend(n)
    \/ \E n \in pi_dict : GatherReturn(n)
    \/ \E n \in pi_dict : SleepDone(n)
    \/ \E n \in pi_dict : RecvClosed(n)
    \/ \E n \in pi_dict : RecvMsg(n)
    \/ \E n \in pi_dict : AnalyzeDone(n)
    \/ \E n \in pi_dict : SendAdvisory(n)
    \/ \E n \in pi_dict : SendCommand(n)
    \/ \E n \in pi_dict : StaleSendCommand(n)
    \/ \E n \in pi_dict : send_to_node(n)
    \/ \E n \in pi_dict : PeerClose(n)
    \/ stop

Next ==
    \/ TaskSteps
    \/ \E n \in pi_dict : StaleAnalyzeDone(n)

(* The manager of one node, its callers and its peer *)
Spec == Init /\ [][Next]_vars

(* The event loop runs every task that is ready, a connect attempt and a sleep
   end, and a worker thread returns; nothing obliges a peer to send or to
   close, nor a caller to call send_to_node or stop. *)
FairSpec ==
    /\ Spec
    /\ \A n \in Single :
         /\ WF_vars(HandlerStart(n))
         /\ WF_vars(ConnectOK(n) \/ ConnectFail(n))
         /\ WF_vars(HandshakeSend(n))
         /\ WF_vars(GatherReturn(n))
         /\ WF_vars(SleepDone(n))
         /\ WF_vars(RecvClosed(n))
         /\ WF_vars(AnalyzeDone(n))
         /\ WF_vars(SendAdvisory(n))
         /\ WF_vars(SendCommand(n))
         /\ WF_vars(StaleSendCommand(n))
         /\ WF_vars(StaleAnalyzeDone(n))

(* The manager of a topology of two nodes: either the callers queue commands,
   or the peers report events; no connection is closed under an analysis,
   since that takes a queued command and an event on one node *)
FleetInit ==
    /\ \/ ManagerInit(Fleet, Cardinality(Fleet), MaxFleetCmds, FALSE)
       \/ ManagerInit(Fleet, Cardinality(Fleet), 0, TRUE)
    /\ DispatchIdle
    /\ OthersIdle

FleetSpec == FleetInit /\ [][TaskSteps]_vars

(* The same topology with callers that also name an id that is not in it *)
CallerNext ==
    \/ TaskSteps
    \/ send_to_node(UnknownNode)

CallerSpec == FleetInit /\ [][CallerNext]_vars

(* A topology of num_nodes nodes, of which the channel of node "1" is followed *)
FpsInit ==
    /\ \E n \in 1..MaxNodes : ManagerInit(Single, n, 0, TRUE)
    /\ DispatchIdle
    /\ OthersIdle

FpsNext ==
    \/ \E n \in pi_dict : HandlerStart(n)
    \/ \E n \in pi_dict : ConnectOK(n)
    \/ \E n \in pi_dict : ConnectFail(n)
    \/ \E n \in pi_dict : HandshakeSend(n)
    \/ \E n \in pi_dict : GatherReturn(n)
    \/ \E n \in pi_dict : SleepDone(n)
    \/ \E n \in pi_dict : RecvClosed(n)
    \/ \E n \in pi_dict : RecvMsg(n)
    \/ \E n \in pi_dict : AnalyzeDone(n)
    \/ \E n \in pi_dict : SendAdvisory(n)
    \/ \E n \in pi_dict : PeerClose(n)
    \/ stop

FpsSpec == FpsInit /\ [][FpsNext]_vars

----------------------------------------------------------------------------
(* ExpertManager.route_and_analyze on its own: a registry of handlers in
   registration order, each claiming a set of event names, and calls in which
   each invoked handler returns a string or raises *)

DispatchEvents == {"Motion_Alert", "Equipment_Status_Sync"}
DispatchVerdicts == {EmptyStr, <<"A-warning">>, <<"B-warning">>}
DispatchOutcomes == {Returns(s) : s \in DispatchVerdicts} \cup {Raises}
(* Handlers in registration order; a registry holds a prefix of them *)
HandlerNames == <<"H1", "H2", "H3">>
Handlers == {[events |-> E] : E \in SUBSET DispatchEvents}

(* analyze is called on the handlers that match_event accepts only *)
CallOutcomes(experts, event_name) ==
    {o \in [1..Len(experts) -> DispatchOutcomes] :
        \A i \in 1..Len(experts) :
            event_name \notin experts[i].events => o[i] = Returns(EmptyStr)}

DispatchInit ==
    /\ ManagerInit(Single, Cardinality(Single), 0, FALSE)
    /\ d_experts \in UNION {[1..k -> Handlers] : k \in 0..Len(HandlerNames)}
    /\ d_event = None
    /\ d_outcome = << >>
    /\ d_result = EmptyStr
    /\ d_invoked = << >>
    /\ d_calls = 0
    /\ d_raised = {}
    /\ OthersIdle

(* one call of route_and_analyze(event_name, frame, context) *)
Dispatch ==
    /\ d_calls < MaxCalls
    /\ \E e \in DispatchEvents :
         \E outcome \in CallOutcomes(d_experts, e) :
            LET r == route_and_analyze(d_experts, e, outcome)
            IN /\ d_event' = e
               /\ d_outcome' = outcome
               /\ d_result' = r.text
               /\ d_invoked' = r.invoked
    /\ d_raised' = d_raised \cup {i \in DOMAIN d_outcome : d_outcome[i].raises}
    /\ d_calls' = d_calls + 1
    /\ UNCHANGED <<d_experts, mvars, xvars>>

DispatchSpec == DispatchInit /\ [][Dispatch]_vars

----------------------------------------------------------------------------
(* GeneralSafetyExpert.analyze called from the worker threads *)

TrackerInit ==
    /\ ManagerInit(Single, Cardinality(Single), 0, FALSE)
    /\ DispatchIdle
    /\ OthersIdle

TrackerNext ==
    \/ Tick /\ UNCHANGED <<mvars, dvars, avars, evars, lvars, pvars>>
    \/ \E w \in Workers, k \in Keys : TrackerRead(w, k) /\ UNCHANGED <<mvars, dvars, avars, evars, lvars, pvars>>
    \/ \E w \in Workers : TrackerTest(w) /\ UNCHANGED <<mvars, dvars, avars, evars, lvars, pvars>>
    \/ \E w \in Workers : TrackerMutate(w) /\ UNCHANGED <<mvars, dvars, avars, evars, lvars, pvars>>
    \/ \E w \in Workers : TrackerStore(w) /\ UNCHANGED <<mvars, dvars, avars, evars, lvars, pvars>>

TrackerSpec == TrackerInit /\ [][TrackerNext]_vars

----------------------------------------------------------------------------
(* route_and_analyze over the experts that claim the events of the nodes:
   GeneralSafetyExpert, whose verdict comes from its violation_states, and
   MotionAlertExpert, which keeps no state.  Calls follow one another. *)

(* match_event of GeneralSafetyExpert and of MotionAlertExpert *)
SafetyRegistry == << [events |-> Keys], [events |-> {"Motion_Alert"}] >>

MotionReport == <<"report">>

(* MotionAlertExpert.analyze returns one of its two texts, never an empty
   one, unless analyze_image raises *)
MotionOutcomes == {Returns(MotionReport), Raises}

(* GeneralSafetyExpert.analyze(frame, {"event_desc": k}) at clock reading t,
   run from the get to the store with no other call in between: the dict it
   works on, the branch it takes, the dict it stores and the text it returns *)
AnalyzeTracked(k, t) ==
    LET state == IF violation_states[k] = 0 THEN DefaultDict(t)
                 ELSE heap[violation_states[k]]
        branch == IF state.count = 0 THEN "first"
                  ELSE IF t - state.last_alert > EscalationWindow THEN "again"
                  ELSE "none"
    IN [state |-> IF branch = "none" THEN state
                  ELSE [state EXCEPT !.last_alert = t, !.count = @ + 1],
        tts_alert |-> CASE branch = "first" -> FirstAlert(k)
                        [] branch = "again" -> EscalatedAlert(k)
                        [] OTHER -> EmptyStr]

AdvisedInit ==
    /\ ManagerInit(Single, Cardinality(Single), 0, FALSE)
    /\ DispatchIdle
    /\ OthersIdle

(* route_and_analyze(event_str, frame, {"event_desc": event_str}) *)
RouteEvent(e) ==
    /\ calls < MaxOcc
    /\ \E motion \in MotionOutcomes :
         LET a == AnalyzeTracked(e, now)
             ref == IF violation_states[e] = 0 THEN calls + 1
                    ELSE violation_states[e]
             outcome == << Returns(a.tts_alert), motion >>
             r == route_and_analyze(SafetyRegistry, e, outcome)
         IN /\ heap' = [heap EXCEPT ![ref] = a.state]
            /\ violation_states' = [violation_states EXCEPT ![e] = ref]
            /\ last_call' = [key |-> e, current_time |-> now,
                             before |-> Snapshot(violation_states[e]),
                             after |-> a.state, tts_alert |-> a.tts_alert,
                             solo |-> TRUE]
            /\ d_event' = e
            /\ d_outcome' = outcome
            /\ d_result' = r.text
            /\ d_invoked' = r.invoked
            /\ advised' = IF r.text # EmptyStr THEN [advised EXCEPT ![e] = now]
                          ELSE advised
    /\ d_when' = [at |-> now, prev |-> advised[e]]
    /\ calls' = calls + 1
    /\ occ' = [occ EXCEPT ![e] = @ + 1]
    /\ UNCHANGED <<now, th, overlapped, d_experts, d_calls, d_raised, mvars, evars, lvars, pvars>>

AdvisedNext ==
    \/ Tick /\ UNCHANGED <<mvars, dvars, avars, evars, lvars, pvars>>
    \/ \E e \in Keys : RouteEvent(e)

AdvisedSpec == AdvisedInit /\ [][AdvisedNext]_vars

----------------------------------------------------------------------------
(* The edge detectors fed with frames, under a catalog fixed at start *)

Frame == [w |-> FrameWidth, h |-> FrameHeight]

(* Catalogs: one classifier policy of every kind; two classifier policies
   with the same or with different names and cooldowns; a policy that cannot
   be cropped ahead of an ordinary one; motion policies *)
Cooldowns == {3, DefaultCooldown}
Conditions == {"all", "any", "none"}
Actions == {"full_frame", "crop_target"}

EdgeCatalogs ==
    {<< >>}
    \cup {<< ClassPolicy("E1", T, c, a, DefaultCooldown) >> :
             T \in SUBSET Classes, c \in Conditions, a \in Actions}
    \cup {<< ClassPolicy("E1", {"person"}, "any", "full_frame", c1),
             ClassPolicy(e, {"person"}, "any", "full_frame", c2) >> :
             e \in EdgeEvents, c1 \in Cooldowns, c2 \in Cooldowns}
    \cup {<< ClassPolicy("E1", {}, "all", "crop_target", DefaultCooldown),
             ClassPolicy("E2", {"person"}, "any", "full_frame", DefaultCooldown) >>}
    \cup {<< MotionPolicy("E1", <<1, 5>>) >>,
          << ClassPolicy("E2", {"bottle"}, "any", "crop_target", DefaultCooldown),
             MotionPolicy("E1", <<1, 5>>), MotionPolicy("E2", <<1, 2>>) >>}

MidBox == Rect(100, 100, 200, 200)
MidBbox == [x |-> 100, y |-> 100, w |-> 200, h |-> 200]

(* a second region, larger than the one of MidBbox *)
WideBbox == [x |-> 300, y |-> 50, w |-> 300, h |-> 400]

(* what cv2.findContours returns, in the order it returns it: no region, one
   region of exactly the threshold area, one above it, and two regions above
   it in either order *)
EdgeContours ==
    {<< >>, << [area |-> AreaThreshold, bbox |-> MidBbox] >>,
     << [area |-> AreaThreshold + 1, bbox |-> MidBbox] >>,
     << [area |-> AreaThreshold + 1, bbox |-> MidBbox],
        [area |-> 2 * AreaThreshold, bbox |-> WideBbox] >>,
     << [area |-> 2 * AreaThreshold, bbox |-> WideBbox],
        [area |-> AreaThreshold + 1, bbox |-> MidBbox] >>}

EdgeSpecInit ==
    /\ ManagerInit(Single, Cardinality(Single), 0, FALSE)
    /\ DispatchIdle
    /\ TrackerIdle /\ AdvisedIdle /\ LoadIdle /\ ParseIdle
    /\ \E catalog \in EdgeCatalogs : EdgeInit(catalog)

EdgeNext ==
    \/ EdgeTick /\ UNCHANGED <<mvars, dvars, tvars, avars, lvars, pvars>>
    \/ \E detected_set \in SUBSET Classes, pick \in Classes :
          /\ SemanticFrame(detected_set, [c \in Classes |-> MidBox], pick, Frame)
          /\ UNCHANGED <<mvars, dvars, tvars, avars, lvars, pvars>>
    \/ \E contours \in EdgeContours :
          /\ MotionFrame(contours, Frame, MotionCooldown)
          /\ UNCHANGED <<mvars, dvars, tvars, avars, lvars, pvars>>

EdgeSpec == EdgeSpecInit /\ [][EdgeNext]_vars

(* Crops: one crop_target policy and one motion policy with each padding,
   boxes and regions that touch or lie near the edges of the frame *)
Paddings == {<<0, 1>>, <<1, 5>>, <<1, 2>>, <<3, 1>>}

CropCatalogs ==
    {<< ClassPolicy("E1", {"person"}, "any", "crop_target", DefaultCooldown),
        MotionPolicy("E2", pad) >> : pad \in Paddings}

Xs == {0, 10, FrameWidth - 10, FrameWidth}
Ys == {0, 10, FrameHeight - 10, FrameHeight}

(* boxes of the classifier, x1 y1 x2 y2, inside the frame *)
Boxes == {Rect(x1, y1, x2, y2) : x1 \in Xs, y1 \in Ys, x2 \in Xs, y2 \in Ys}
InsideBoxes == {b \in Boxes : b.x1 <= b.x2 /\ b.y1 <= b.y2}

(* bounding rectangles of a region of more than AreaThreshold pixels *)
InsideBboxes ==
    {[x |-> b.x1, y |-> b.y1, w |-> b.x2 - b.x1, h |-> b.y2 - b.y1] :
        b \in {c \in InsideBoxes : (c.x2 - c.x1) * (c.y2 - c.y1) > AreaThreshold}}

CropSpecInit ==
    /\ ManagerInit(Single, Cardinality(Single), 0, FALSE)
    /\ DispatchIdle
    /\ TrackerIdle /\ AdvisedIdle /\ LoadIdle /\ ParseIdle
    /\ \E catalog \in CropCatalogs : EdgeInit(catalog)

CropNext ==
    \/ \E b \in InsideBoxes :
          /\ SemanticFrame({"person"}, [c \in Classes |-> b], "person", Frame)
          /\ UNCHANGED <<mvars, dvars, tvars, avars, lvars, pvars>>
    \/ \E bbox \in InsideBboxes :
          /\ MotionFrame(<< [area |-> AreaThreshold + 1, bbox |-> bbox] >>, Frame,
                         MotionCooldown)
          /\ UNCHANGED <<mvars, dvars, tvars, avars, lvars, pvars>>

CropSpec == CropSpecInit /\ [][CropNext]_vars

----------------------------------------------------------------------------
(* The expert manager from construction on: every listing order, every
   recorded switch and every import outcome of the modules *)

LoadSpecInit ==
    /\ ManagerInit(Single, Cardinality(Single), 0, FALSE)
    /\ DispatchIdle
    /\ TrackerIdle /\ AdvisedIdle /\ EdgeIdle /\ ParseIdle
    /\ LoadInit(Orderings(Modules), [Modules -> ConfigValues], [Modules -> BOOLEAN])

LoadNext ==
    \/ LoadFile /\ UNCHANGED <<mvars, dvars, tvars, avars, evars, pvars>>
    \/ get_aggregated_edge_policy /\ UNCHANGED <<mvars, dvars, tvars, avars, evars, pvars>>
    \/ \E e \in Keys : RouteLoaded(e) /\ UNCHANGED <<mvars, dvars, tvars, avars, evars, pvars>>

LoadSpec == LoadSpecInit /\ [][LoadNext]_vars

----------------------------------------------------------------------------
(* Event messages built by a peer: names of up to MaxNameLen characters, with
   and without colons, one longer name whose tail after the colon is itself
   a block of base64 characters, and images of no byte or three bytes *)

EventTextNames ==
    UNION {[1..k -> NameChars] : k \in 0..MaxNameLen}
    \cup {<< "A", ":", "A", "A", "A", "A" >>}

ImageBytes == {<< >>} \cup [1..3 -> {0, 1}]

ParseSpecInit ==
    /\ ManagerInit(Single, Cardinality(Single), 0, FALSE)
    /\ DispatchIdle
    /\ TrackerIdle /\ AdvisedIdle /\ EdgeIdle /\ LoadIdle
    /\ ParseInit(EventTextNames, ImageBytes)

ParseNext ==
    \E prefix \in EventPrefixes :
        RecvEventText(prefix) /\ UNCHANGED <<mvars, dvars, tvars, avars, evars, lvars>>

ParseSpec == ParseSpecInit /\ [][ParseNext]_vars

----------------------------------------------------------------------------
(* Properties *)

(* C1: a node's status never goes from "offline" straight to "online": the
   handler sets it to "connecting" before every connection attempt, so every
   step that leaves "offline" ends in "connecting" *)
C1_OfflineNeverStraightToOnline ==
    [][\A n \in pi_dict :
          node_status[n] = "offline" =>
              node_status'[n] \in {"offline", "connecting"}]_vars

(* a node is online again on a connection made after a failure left a
   send_command_task of the failed connection behind *)
C1_Witness ==
    \E n \in pi_dict : node_status[n] = "online" /\ stale[n] > 0

(* C2: whenever the manager is running and a node's connection has been
   closed by the peer while the node is shown online, the node is eventually
   shown offline (or the manager is stopped) *)
C2_ClosedLeadsToOffline ==
    \A n \in Single :
        (running /\ node_status[n] = "online" /\ conn[n] \in {"closed_ok", "closed_err"})
            ~> (node_status[n] = "offline" \/ ~running)

(* the same for a connection that ended abnormally only *)
AbnormalCloseLeadsToOffline ==
    \A n \in Single :
        (running /\ node_status[n] = "online" /\ conn[n] = "closed_err")
            ~> (node_status[n] = "offline" \/ ~running)

(* the connection was closed with code 1000, recv_stream_task has returned,
   send_command_task waits in get() on an empty queue: gather does not return *)
CleanCloseStuck ==
    \E n \in pi_dict :
        /\ running /\ node_status[n] = "online" /\ conn[n] = "closed_ok"
        /\ pc[n] = "gather" /\ rpc[n] = "done" /\ spc[n] = "wait"
        /\ send_queues[n] = << >>

(* Everything the manager and its tasks hold for node n *)
NodeState(n) ==
    <<node_status[n], frame_buffers[n], send_queues[n], pc[n], rpc[n], spc[n],
      stale[n], stale_calls[n], conn[n], wire[n], task_out[n], sent_cmds[n], ev[n], tts_text[n]>>

(* C3: a step that changes anything held for one node (its status, frame
   buffer, outbound queue, connection or tasks) leaves everything held for
   every other node as it was, whether the step is a failure or not *)
C3_NodesAreIsolated ==
    [][\A n \in Fleet : \A m \in Fleet \ {n} :
          NodeState(n)' # NodeState(n) => NodeState(m)' = NodeState(m)]_vars

(* node 2 failed after it had streamed a frame, node 1 is online *)
C3_Witness ==
    /\ pi_dict = Fleet
    /\ node_status["1"] = "online"
    /\ node_status["2"] = "offline"
    /\ frame_buffers["2"] # None

(* SET_FPS with the allocated rate, and SYNC_POLICY after it, have been
   transmitted on the current connection of node n *)
HandshakeSent(n) ==
    \E i \in 1..Len(wire[n]) : \E j \in 1..Len(wire[n]) :
        /\ i < j
        /\ wire[n][i] = SetFps(target_fps)
        /\ wire[n][j] = SyncPolicy

(* C4: on every connection the tasks that read frames and events and that
   transmit queued commands run, and a task has transmitted, only after
   SET_FPS and then SYNC_POLICY were sent on that connection *)
C4_HandshakeBeforeTraffic ==
    \A n \in pi_dict :
        (rpc[n] # "none" \/ spc[n] # "none" \/ task_out[n] # NoMsg)
            => HandshakeSent(n)

(* a queued command was transmitted on a connection made after a failure *)
C4_Witness ==
    \E n \in pi_dict :
        stale[n] > 0 /\ task_out[n].verb = "COMMAND" /\ HandshakeSent(n)

(* C5 as stated: every SET_FPS carries the aggregate rate divided by the
   number of nodes *)
C5_RateIsEvenShare ==
    \A n \in pi_dict : \A i \in 1..Len(wire[n]) :
        wire[n][i].verb = "SET_FPS"
            => RatEq(wire[n][i].rate, <<AggregateFps, num_nodes>>)

(* C5: with N >= 1 nodes every SET_FPS carries 30/N when N <= 30 and 1
   otherwise; the allocation is the one made at construction, and SET_FPS is
   the first message of a connection and is sent at no other time *)
C5_RateIsFlooredShare ==
    /\ RatEq(target_fps, IF num_nodes <= AggregateFps
                         THEN <<AggregateFps, num_nodes>> ELSE <<MinFps, 1>>)
    /\ \A n \in pi_dict :
          /\ task_out[n].verb # "SET_FPS"
          /\ \A i \in 1..Len(wire[n]) :
                (wire[n][i].verb = "SET_FPS" <=> i = 1)
                /\ (i = 1 => RatEq(wire[n][i].rate, target_fps))

(* two nodes: 15 frames per second sent to a node that then streamed a frame *)
C5_Witness ==
    /\ num_nodes = 2
    /\ \E n \in pi_dict :
          /\ Len(wire[n]) >= 1
          /\ wire[n][1].verb = "SET_FPS"
          /\ RatEq(wire[n][1].rate, <<15, 1>>)
          /\ frame_buffers[n] # None

(* more than 30 nodes: the rate sent is 1 *)
FloorReached ==
    /\ num_nodes > AggregateFps
    /\ \E n \in pi_dict : Len(wire[n]) >= 1 /\ RatEq(wire[n][1].rate, <<1, 1>>)

(* C6: after stop() every node handler stops *)
C6_StopEndsHandlers ==
    (~running) ~> (\A n \in Single : pc[n] = "done")

(* stopped, the connection open, recv_stream_task waiting for a message and
   send_command_task waiting in get() on an empty queue *)
StoppedAndIdle ==
    \E n \in pi_dict :
        /\ ~running /\ IsOpen(n)
        /\ pc[n] = "gather" /\ rpc[n] = "wait" /\ spc[n] = "wait"
        /\ send_queues[n] = << >>

(* C7: the commands transmitted to a node are in the order of the
   send_to_node calls that queued them (the k-th call queues k) *)
C7_CommandsInCallOrder ==
    \A n \in pi_dict :
        \A i \in 1..Len(sent_cmds[n]) : \A j \in 1..Len(sent_cmds[n]) :
            i < j => sent_cmds[n][i] < sent_cmds[n][j]

(* two commands queued and both transmitted *)
C7_Witness ==
    \E n \in pi_dict : Len(sent_cmds[n]) >= 2

(* The handlers that match_event accepts in the last call, in registration order *)
Matching ==
    SelectSeq([i \in 1..Len(d_experts) |-> i],
              LAMBDA i : d_event \in d_experts[i].events)

(* Those of them that returned a non-empty string *)
Contributing ==
    SelectSeq(Matching,
              LAMBDA i : ~d_outcome[i].raises /\ d_outcome[i].value # EmptyStr)

(* The strings of the contributing handlers with one separator between each
   two of them (every string of DispatchVerdicts is one token) *)
Advisory ==
    [p \in 1..(2 * Len(Contributing) - 1) |->
        IF p % 2 = 1 THEN d_outcome[Contributing[(p + 1) \div 2]].value[1]
        ELSE Space[1]]

(* C8: the string returned is the non-empty strings of the matching handlers,
   in registration order, with one separator between consecutive ones and none
   at either end; it is empty when no handler contributes *)
C8_JoinOfNonEmptyResults ==
    d_calls > 0 => d_result = Advisory

(* H1, H2, H3 all match and return "", "B-warning", "": the result is "B-warning" *)
C8_Witness ==
    /\ d_calls > 0
    /\ Len(d_experts) = 3
    /\ Matching = <<1, 2, 3>>
    /\ d_outcome = <<Returns(EmptyStr), Returns(<<"B-warning">>), Returns(EmptyStr)>>
    /\ d_result = <<"B-warning">>

(* C9: every matching handler is invoked, in registration order, whether or
   not a handler before it raised in this call or it raised itself in an
   earlier call; a handler that raises adds nothing to the result; the
   registry is as it was *)
C9_RaiseIsContained ==
    d_calls > 0 =>
        /\ d_invoked = Matching
        /\ (\E i \in 1..Len(d_invoked) : d_outcome[d_invoked[i]].raises)
              => d_result = Advisory
        /\ \A i \in d_raised : i \in 1..Len(d_experts)

(* a handler raises, a handler after it is invoked and its string returned;
   a handler that raised in an earlier call is invoked *)
C9_Witness ==
    /\ d_calls > 1
    /\ \E i \in 1..Len(d_invoked) : \E j \in 1..Len(d_invoked) :
          /\ i < j
          /\ d_outcome[d_invoked[i]].raises
          /\ ~d_outcome[d_invoked[j]].raises
          /\ d_result = d_outcome[d_invoked[j]].value
          /\ d_result # EmptyStr
          /\ d_invoked[j] \in d_raised

(* C10: the step that follows an analysis transmits CMD:TTS with the advisory
   text on the connection of the node whose event was analysed exactly when
   the text is not empty, and transmits nothing to any other node; no step
   puts an advisory on a connection other than that of its origin *)
C10_AdvisoryToOriginOnly ==
    [][\A n \in Fleet :
          /\ (rpc[n] = "advise" /\ rpc'[n] = "wait") =>
                /\ (IsOpen(n) /\ tts_text[n] # EmptyStr)
                      => task_out'[n] = Tts(n, tts_text[n])
                /\ tts_text[n] = EmptyStr => task_out'[n] = task_out[n]
                /\ \A m \in Fleet \ {n} : task_out'[m] = task_out[m]
          /\ (task_out'[n] # task_out[n] /\ task_out'[n].verb = "TTS") =>
                /\ rpc[n] = "advise"
                /\ tts_text[n] # EmptyStr
                /\ task_out'[n].origin = n]_vars

(* node 2 was sent an advisory while node 1, connected, was sent none *)
C10_Witness ==
    /\ pi_dict = Fleet
    /\ task_out["2"] = Tts("2", <<"A">>)
    /\ IsOpen("1")
    /\ rpc["1"] = "wait"
    /\ task_out["1"] = NoMsg

(* Time between the last alert for the key and the call that returned last *)
SinceLastAlert == last_call.current_time - last_call.before.last_alert

(* The call that returned last ran while no other call on its key did *)
SoloCall == last_call.key # None /\ last_call.solo

(* C11: for a call of analyze on key K that does not overlap another call on
   K: if K had no state, the first alert is returned and K is left with
   count = 1 and last_alert = now; if K was alerted less than the escalation
   window ago, nothing is returned and last_alert is unchanged; if K was
   alerted more than the window ago, the escalated alert is returned and
   last_alert = now *)
C11_FirstSuppressEscalate ==
    SoloCall =>
        /\ ~last_call.before.present =>
              /\ last_call.tts_alert = FirstAlert(last_call.key)
              /\ last_call.after.count = 1
              /\ last_call.after.last_alert = last_call.current_time
        /\ (last_call.before.present /\ SinceLastAlert < EscalationWindow) =>
              /\ last_call.tts_alert = EmptyStr
              /\ last_call.after.last_alert = last_call.before.last_alert
        /\ (last_call.before.present /\ SinceLastAlert > EscalationWindow) =>
              /\ last_call.tts_alert = EscalatedAlert(last_call.key)
              /\ last_call.after.last_alert = last_call.current_time

(* the third call on a key, after a first alert and a suppressed occurrence,
   returns the escalated alert *)
C11_Witness ==
    /\ SoloCall /\ ~overlapped
    /\ occ[last_call.key] = 3
    /\ last_call.after.count = 2
    /\ last_call.tts_alert = EscalatedAlert(last_call.key)
    /\ last_call.after.last_alert = last_call.current_time

(* The occurrence count the tracker holds for key k *)
Count(k) == IF violation_states[k] = 0 THEN 0 ELSE heap[violation_states[k]].count

(* C19: when no call is in progress (and no two calls on one key ever
   overlapped), the count held for every key equals the number of
   occurrences of the key, suppressed ones included *)
C19_CountEqualsOccurrences ==
    (~overlapped /\ \A w \in Workers : th[w].pcw = "idle") =>
        \A k \in Keys : Count(k) = occ[k]

(* two occurrences of a key, the second suppressed: count is still 1 *)
SuppressedNotCounted ==
    /\ SoloCall /\ ~overlapped
    /\ \A w \in Workers : th[w].pcw = "idle"
    /\ last_call.tts_alert = EmptyStr
    /\ occ[last_call.key] = 2
    /\ Count(last_call.key) = 1

(* C20: a call on an already alerted key that overlaps no other call returns
   the escalated alert and sets last_alert = now exactly when
   now - last_alert >= the escalation window, and returns nothing when
   now - last_alert is less than the window *)
C20_EscalateFromWindowOn ==
    (SoloCall /\ last_call.before.present) =>
        /\ (last_call.tts_alert = EscalatedAlert(last_call.key)
                /\ last_call.after.last_alert = last_call.current_time)
              <=> SinceLastAlert >= EscalationWindow
        /\ SinceLastAlert < EscalationWindow => last_call.tts_alert = EmptyStr

(* an occurrence exactly one escalation window after the last alert returns
   nothing *)
SuppressedAtWindow ==
    /\ SoloCall /\ ~overlapped
    /\ last_call.before.present
    /\ SinceLastAlert = EscalationWindow
    /\ last_call.tts_alert = EmptyStr
    /\ last_call.after.last_alert = last_call.before.last_alert

(* the same with the boundary left to the suppressed side, as the code has it *)
EscalateAfterWindowOnly ==
    (SoloCall /\ last_call.before.present) =>
        /\ (last_call.tts_alert = EscalatedAlert(last_call.key)
                /\ last_call.after.last_alert = last_call.current_time)
              <=> SinceLastAlert > EscalationWindow
        /\ SinceLastAlert <= EscalationWindow => last_call.tts_alert = EmptyStr

Statuses == {"connecting", "online", "offline"}

(* C15 as stated: the status of a node is one of the three statuses and
   changes only from connecting to online, from online to offline and from
   offline to connecting *)
C15_ThreeTransitions ==
    [][\A n \in pi_dict :
          /\ node_status[n] \in Statuses /\ node_status'[n] \in Statuses
          /\ node_status'[n] # node_status[n] =>
                <<node_status[n], node_status'[n]>> \in
                    {<<"connecting", "online">>, <<"online", "offline">>,
                     <<"offline", "connecting">>}]_vars

(* C15: the status of a node is one of the three statuses and changes only
   from connecting to online (the connect succeeded), from connecting to
   offline (the connect failed), from online to offline and from offline to
   connecting *)
C15_FourTransitions ==
    [][\A n \in pi_dict :
          /\ node_status[n] \in Statuses /\ node_status'[n] \in Statuses
          /\ node_status'[n] # node_status[n] =>
                <<node_status[n], node_status'[n]>> \in
                    {<<"connecting", "online">>, <<"connecting", "offline">>,
                     <<"online", "offline">>, <<"offline", "connecting">>}]_vars

(* a node is connecting again after it was online and then offline *)
C15_Witness ==
    \E n \in pi_dict :
        node_status[n] = "connecting" /\ pc[n] = "connect" /\ stale[n] > 0

(* a connection attempt failed: the node is offline and was never online *)
ConnectingToOffline ==
    [][\A n \in pi_dict :
          ~(node_status[n] = "connecting" /\ node_status'[n] = "offline")]_vars

(* C16: no analysis is started for an event message whose payload could not
   be decoded: the message is discarded, no handler is invoked *)
C16_UndecodableEventDiscarded ==
    \A n \in pi_dict : rpc[n] = "analyze" => ev[n].frame # None

(* C17 as stated: every well-formed event message read from a node is handed
   to route_and_analyze *)
C17_EveryEventDispatched ==
    \A n \in pi_dict :
        (ev[n].name # None /\ ev[n].frame # None /\ rpc[n] # "none")
            => rpc[n] = "analyze"

(* C17: an event message read from a node is handed to route_and_analyze, in
   one call, exactly when the manager was running and the voice assistant was
   not active when it was read; otherwise it is dropped without a call; the
   analysis in progress on a connection is that of the event read last *)
C17_DispatchedOnceUnlessSkipped ==
    \A n \in pi_dict :
        /\ (ev[n].name # None /\ rpc[n] # "none") =>
              (rpc[n] = "analyze" <=> (~ev[n].agent_active /\ ~ev[n].stopped))
        /\ rpc[n] = "analyze" => ev[n].name # None

(* an event was read while the voice assistant was active: no call is made
   and the task waits for the next message *)
C17_Witness ==
    \E n \in pi_dict :
        /\ ev[n].name # None /\ ev[n].frame # None
        /\ ev[n].agent_active /\ ~ev[n].stopped
        /\ rpc[n] = "wait" /\ IsOpen(n)

(* The call of route_and_analyze that returned last was made less than the
   escalation window after an advisory for the same event *)
RepeatedWithinWindow ==
    /\ d_event # None
    /\ d_when.prev # Never
    /\ d_when.at - d_when.prev < EscalationWindow

(* C18: when an event is dispatched again less than the escalation window
   after an advisory for the same event description, route_and_analyze
   returns no text, so that no advisory is sent, whichever handlers match *)
C18_RepeatWithinWindowSilent ==
    RepeatedWithinWindow => d_result = EmptyStr

(* the same holds for the events that only GeneralSafetyExpert claims *)
TrackedOnlyRepeatSilent ==
    (RepeatedWithinWindow /\ d_event = "Lab_Violation") => d_result = EmptyStr

(* Motion_Alert dispatched twice at the same clock reading: the second call
   returns the text of MotionAlertExpert although the tracker suppressed the
   verdict of GeneralSafetyExpert *)
RepeatedAdvisory ==
    /\ RepeatedWithinWindow
    /\ d_event = "Motion_Alert"
    /\ last_call.tts_alert = EmptyStr
    /\ d_result = MotionReport

(* Among the events returned by one detector, a later one with the name of an
   earlier one is at least the earlier one's cooldown later *)
NoRefireInsideCooldown(detector) ==
    \A i \in 1..Len(e_fired) : \A j \in (i + 1)..Len(e_fired) :
        (e_fired[i].detector = detector /\ e_fired[j].detector = detector
            /\ e_fired[i].event_name = e_fired[j].event_name)
          => e_fired[j].at >= e_fired[i].at + e_fired[i].cooldown

(* C12: after an event with name E and cooldown C was returned at time t0 by
   one detector, that detector returns no event named E before t0 + C,
   whichever policy of the catalog carries the name *)
C12_NoRefireInsideCooldown ==
    NoRefireInsideCooldown("semantic") /\ NoRefireInsideCooldown("motion")

(* EdgeMotionDetector alone keeps to its cooldown *)
MotionNoRefireInsideCooldown == NoRefireInsideCooldown("motion")

(* SemanticEdgeEngine returned E1 for a policy with cooldown 5 and, 3 seconds
   later, E1 again for another policy with cooldown 3 *)
RefiredBySecondPolicy ==
    \E i \in 1..Len(e_fired) : \E j \in (i + 1)..Len(e_fired) :
        /\ e_fired[i].detector = "semantic" /\ e_fired[j].detector = "semantic"
        /\ e_fired[i].event_name = e_fired[j].event_name
        /\ e_fired[i].cooldown = DefaultCooldown
        /\ e_fired[j].at = e_fired[i].at + 3

(* Policy i is a classifier policy that was outside its cooldown in the call
   that returned last, and no policy ahead of it carries its event name *)
OutsideCooldown(i) ==
    /\ e_call.detector = "semantic"
    /\ e_call.at - e_call.before[policies[i].event_name] >= policies[i].cooldown
    /\ \A j \in 1..(i - 1) : policies[j].event_name # policies[i].event_name

Returned(i) == \E k \in 1..Len(e_call.events) : e_call.events[k].policy = i

(* C13: a classifier policy that is outside its cooldown has its event
   returned for a frame if and only if its condition is all and its required
   classes are all detected, or its condition is any and one of its required
   classes is detected *)
C13_FiresIffConditionHolds ==
    \A i \in 1..Len(policies) :
        OutsideCooldown(i) =>
            (Returned(i) <=>
                \/ policies[i].condition = "all"
                     /\ policies[i].trigger_classes \subseteq e_call.detected
                \/ policies[i].condition = "any"
                     /\ policies[i].trigger_classes \cap e_call.detected # {})

(* the same for the calls that return *)
FiresIffConditionHoldsUnlessRaised ==
    e_call.raised \/ C13_FiresIffConditionHolds

(* a policy with condition all, no required class and action crop_target
   matched: process_frame raised and returned nothing *)
MatchedButRaised ==
    /\ e_call.detector = "semantic" /\ e_call.raised
    /\ \E i \in 1..Len(policies) : OutsideCooldown(i) /\ ~Returned(i)
          /\ policies[i].condition = "all" /\ policies[i].trigger_classes = {}

InFrame(r, frame) ==
    /\ 0 <= r.x1 /\ r.x1 <= r.x2 /\ r.x2 <= frame.w
    /\ 0 <= r.y1 /\ r.y1 <= r.y2 /\ r.y2 <= frame.h

(* C14: every crop returned for a bounding box inside the frame, with a
   padding of zero or more, satisfies 0 <= x1 <= x2 <= W and
   0 <= y1 <= y2 <= H *)
C14_CropInsideFrame ==
    \A k \in 1..Len(e_call.events) : InFrame(e_call.events[k].crop, e_call.frame)

(* a region that touches the left and the top edge of the frame was cropped
   with a padding that reaches beyond all four edges: the crop is the frame *)
C14_Witness ==
    /\ e_call.detector = "motion"
    /\ e_call.bbox.x = 0 /\ e_call.bbox.y = 0
    /\ e_call.pad = <<3, 1>>
    /\ Len(e_call.events) = 1
    /\ e_call.events[1].crop = FullFrame(e_call.frame.w, e_call.frame.h)

(* a box in the right bottom corner was cropped by SemanticEdgeEngine *)
CroppedAtCorner ==
    /\ e_call.detector = "semantic"
    /\ e_call.box.x2 = e_call.frame.w /\ e_call.box.y2 = e_call.frame.h
    /\ e_call.box.x1 = e_call.frame.w - 10
    /\ Len(e_call.events) = 1
    /\ e_call.events[1].crop.x2 = e_call.frame.w
    /\ e_call.events[1].crop.x1 = e_call.frame.w - 10 - CropMargin

(* Detector d returned an event named e before the call that returned last *)
FiredBefore(d, e) ==
    \E k \in 1..Len(e_fired) :
        e_fired[k].detector = d /\ e_fired[k].event_name = e /\ e_fired[k].at < e_call.at

ReturnedName(e) == \E k \in 1..Len(e_call.events) : e_call.events[k].event_name = e

(* C21: when EdgeMotionDetector finds motion and returns an event, every
   policy triggered by motion whose event name never fired before has its
   event returned too: the firing of one name does not suppress another *)
C21_OtherNameNotSuppressed ==
    (e_call.detector = "motion" /\ e_call.events # << >>) =>
        \A i \in MotionPolicies :
            ~FiredBefore("motion", policies[i].event_name)
                => ReturnedName(policies[i].event_name)

(* motion returned E1 on a frame and, one detector cooldown later, E1 again:
   E2, triggered by the same motion, was returned neither time *)
OtherNameNeverFires ==
    /\ e_call.detector = "motion" /\ e_call.events # << >>
    /\ FiredBefore("motion", "E1") /\ ReturnedName("E1")
    /\ \E i \in MotionPolicies : policies[i].event_name = "E2"
    /\ ~FiredBefore("motion", "E2") /\ ~ReturnedName("E2")

(* SemanticEdgeEngine: in a call that returns, a matching policy whose name
   is carried by no other policy and is outside its own cooldown is returned
   whatever other names fired *)
SemanticOtherNameNotSuppressed ==
    (e_call.detector = "semantic" /\ ~e_call.raised) =>
        \A i \in 1..Len(policies) :
            (/\ IsMatch(policies[i], e_call.detected)
             /\ \A j \in 1..Len(policies) :
                   j # i => policies[j].event_name # policies[i].event_name
             /\ e_call.at - e_call.before[policies[i].event_name] >= policies[i].cooldown)
                => Returned(i)

(* The switch recorded for module m is 0 or false *)
DisabledInConfig(m) == l_config[m] \in {"0", "False"}

Registered == {l_experts[i] : i \in 1..Len(l_experts)}
InCatalog == {l_catalog.event_policies[i].expert : i \in 1..Len(l_catalog.event_policies)}

(* A handler disabled in the configuration is not registered, has no policy
   in the catalog and neither its match_event nor its analyze is invoked *)
DisabledExcluded ==
    \A m \in Modules :
        DisabledInConfig(m) =>
            m \notin Registered /\ m \notin InCatalog
                /\ m \notin l_matched /\ m \notin l_analyzed

(* Handler m, once the load is over, is registered, has its policy in every
   catalog returned if the policy is not empty, and has its match_event
   invoked by every route_and_analyze and its analyze for the events it
   matches: it was analyzed if a handler was that matches no other events
   than it does *)
TakesPart(m) ==
    LoadDone =>
        /\ m \in Registered
        /\ (l_catalog.calls > 0 /\ ModulePolicy(m) # EmptyPolicy) => m \in InCatalog
        /\ l_matched # {} => m \in l_matched
        /\ (\E o \in l_analyzed : ModuleEvents(o) \subseteq ModuleEvents(m))
              => m \in l_analyzed

(* C22 as stated: a disabled handler is excluded from registration, catalog
   and dispatch, and every handler that is enabled or seen for the first
   time takes part in both *)
C22_EnabledTakesPart ==
    /\ DisabledExcluded
    /\ \A m \in Modules : ~DisabledInConfig(m) => TakesPart(m)

(* C22: a disabled handler is excluded from registration, catalog and
   dispatch, and every handler that is enabled or seen for the first time,
   and whose module is imported and instantiated without an exception,
   takes part in both *)
C22_EnabledAndLoadedTakesPart ==
    /\ DisabledExcluded
    /\ \A m \in Modules : (~DisabledInConfig(m) /\ ~l_import[m]) => TakesPart(m)

(* one module disabled with False, one seen for the first time, one enabled:
   the two that are not disabled are in the registry, the catalog was
   returned and an event was dispatched *)
C22_Witness ==
    /\ LoadDone
    /\ l_config["danger_expert"] = "False"
    /\ l_config["general_safety_expert"] = "1"
    /\ Registered = {"general_safety_expert", "motion_expert"}
    /\ InCatalog = {"motion_expert"}
    /\ l_analyzed = {"general_safety_expert", "motion_expert"}

(* an enabled module whose import raised is not in the registry *)
EnabledButNotLoaded ==
    /\ LoadDone
    /\ \E m \in Modules : ~DisabledInConfig(m) /\ l_import[m] /\ m \notin Registered

(* The registered handlers with a non-empty policy, in registration order *)
WithPolicy == SelectSeq(l_experts, LAMBDA m : ModulePolicy(m) # EmptyPolicy)

(* C23: every call of get_aggregated_edge_policy returns one entry for each
   registered handler whose policy is not empty, in registration order, and
   none for the others; it leaves the registry as it is, and returns what
   the call before it returned *)
C23_CatalogOfNonEmptyPolicies ==
    [][l_catalog'.calls # l_catalog.calls =>
          /\ l_experts' = l_experts
          /\ l_catalog'.event_policies =
                [i \in 1..Len(WithPolicy) |->
                    [expert |-> WithPolicy[i], policy |-> ModulePolicy(WithPolicy[i])]]
          /\ l_catalog.calls > 0 =>
                l_catalog'.event_policies = l_catalog.event_policies]_vars

(* the catalog was returned twice for a registry of three handlers, the
   second of which has an empty policy *)
C23_Witness ==
    /\ l_catalog.calls = 2
    /\ Len(l_experts) = 3 /\ l_experts[2] = "general_safety_expert"
    /\ Len(l_catalog.event_policies) = 2
    /\ l_catalog.event_policies[1].expert = l_experts[1]
    /\ l_catalog.event_policies[2].expert = l_experts[3]


----------------------------------------------------------------------------
(* C24: frame_buffers[n] is written only by the inbound task of node n, and
   is at every moment the last preview frame from node n that decoded to an
   image (None before the first one); texts, events and binary data that do
   not decode leave it unchanged *)
InboundTaskReads(n) ==
    pc[n] = "gather" /\ rpc[n] = "wait" /\ IsOpen(n) /\ running

BufferWrittenByOwnTask ==
    \A n \in pi_dict :
        frame_buffers'[n] # frame_buffers[n] =>
            /\ InboundTaskReads(n)
            /\ frame_buffers'[n] \in Frames
            /\ \A o \in pi_dict \ {n} : frame_buffers'[o] = frame_buffers[o]

BufferIsLastDecoded == \A n \in pi_dict : frame_buffers[n] = decoded[n]

C24_BufferIsLastDecodedFrame ==
    [](BufferIsLastDecoded) /\ [][BufferWrittenByOwnTask]_vars

C24_Witness ==
    /\ frame_buffers["1"] = "frameB"
    /\ frame_buffers["2"] = "frameA"
    /\ decoded["2"] = "frameA"
    /\ rpc["1"] = "analyze"

----------------------------------------------------------------------------
(* C25: while running is set no error ends a node's handler: _node_handler
   has returned, and start() has completed, only when stop() was called *)
Returned_node_handler(n) == pc[n] = "done"

StartCompleted == \A n \in pi_dict : Returned_node_handler(n)

HandlerReturnsOnlyStopped ==
    \A n \in pi_dict : ~Returned_node_handler(n) /\ Returned_node_handler(n)' => ~running

C25_HandlerReturnsOnlyAfterStop ==
    /\ [](\A n \in pi_dict : Returned_node_handler(n) => ~running)
    /\ [][HandlerReturnsOnlyStopped]_vars

(* start() has completed after stop(), one handler having met an error before *)
C25_Witness ==
    /\ StartCompleted
    /\ ~running
    /\ node_status["1"] = "offline"
    /\ node_status["2"] = "online"

(* a handler that met an error and goes on while running is set *)
HandlerSurvivedError ==
    \E n \in pi_dict : running /\ node_status[n] = "offline" /\ pc[n] = "sleep"

----------------------------------------------------------------------------
(* C26: after a reconnection a queued command is taken from the node's queue
   by the outbound task of the current connection only, never by an outbound
   task left over from a closed connection *)
CurrentTaskWaits(n) == pc[n] = "gather" /\ spc[n] = "wait" /\ IsOpen(n)

CommandTaken(n) == Len(send_queues'[n]) < Len(send_queues[n])

C26_OnlyCurrentTaskTakes ==
    [][\A n \in pi_dict :
          CurrentTaskWaits(n) /\ CommandTaken(n) => stale'[n] = stale[n]]_vars

(* the node is connected again, both commands of the callers have left the
   queue, and none was transmitted, on this connection or an earlier one *)
CommandsLostWhileConnected ==
    \E n \in pi_dict :
        /\ CurrentTaskWaits(n)
        /\ next_cmd > max_cmds /\ max_cmds > 0
        /\ send_queues[n] = << >>
        /\ sent_cmds[n] = << >>
        /\ task_out[n] = NoMsg

----------------------------------------------------------------------------
(* C27: when analyze runs at the same time in several worker threads on the
   same description, the first-occurrence alert of the description is
   produced at most once: by the call that returned last and the calls in
   progress together *)
FirstAlertsInProgress(k) ==
    {w \in Workers : th[w].pcw = "mutated" /\ th[w].key = k
                      /\ th[w].tts_alert = FirstAlert(k)}

FirstAlertReturned(k) == last_call.key = k /\ last_call.tts_alert = FirstAlert(k)

C27_FirstAlertAtMostOnce ==
    \A k \in Keys :
        Cardinality(FirstAlertsInProgress(k)) + (IF FirstAlertReturned(k) THEN 1 ELSE 0) <= 1

(* two calls on one description, begun at the same clock reading, are both
   about to return the first-occurrence alert *)
TwoFirstAlertsAtOnce ==
    \E k \in Keys :
        /\ FirstAlertsInProgress(k) = Workers
        /\ \A w \in Workers : th[w].current_time = now

(* calls that do not overlap produce the first-occurrence alert once *)
SequentialFirstAlertOnce ==
    ~overlapped => C27_FirstAlertAtMostOnce

----------------------------------------------------------------------------
(* C28: when several regions of a frame exceed the area threshold, the
   motion detector takes the largest of them as the motion region and crops
   with its bounding rectangle, whatever the order of the regions *)
MotionFired == e_call.detector = "motion" /\ e_call.events # << >>

IsLargest(contours, i) == \A j \in 1..Len(contours) : contours[j].area <= contours[i].area

C28_LargestRegionIsMotion ==
    MotionFired =>
        \E i \in LargeContours(e_call.contours) :
            /\ IsLargest(e_call.contours, i)
            /\ e_call.bbox = e_call.contours[i].bbox
            /\ e_call.events[1].crop =
                   MotionCrop(e_call.contours[i].bbox, e_call.pad,
                              e_call.frame.w, e_call.frame.h)

(* the region taken is the first one above the threshold in the order of
   cv2.findContours *)
FirstLargeRegionIsMotion ==
    MotionFired =>
        e_call.bbox = e_call.contours[Lowest(LargeContours(e_call.contours))].bbox

(* a frame with two regions above the threshold, the smaller one found first:
   the detector cropped with the smaller one *)
SmallerRegionTaken ==
    /\ MotionFired
    /\ Cardinality(LargeContours(e_call.contours)) = 2
    /\ e_call.bbox = MidBbox
    /\ ~IsLargest(e_call.contours, 1)

----------------------------------------------------------------------------
(* C29: while the analysis of an event of one node is in progress, the
   inbound task of every other node that waits on an open connection can
   receive a frame, which replaces its frame buffer, and can receive an event,
   whose analysis starts at once; and an analysis of another node that is in
   progress can return *)
Analyzing(n) == pc[n] = "gather" /\ rpc[n] = "analyze"

CanReceiveFrame(m) == ENABLED (RecvMsg(m) /\ frame_buffers'[m] = "frameB")

CanDispatchEvent(m) == ENABLED (RecvMsg(m) /\ rpc'[m] = "analyze")

C29_OtherNodesNotDelayed ==
    \A n \in pi_dict : \A m \in pi_dict \ {n} :
        Analyzing(n) =>
            /\ InboundTaskReads(m) /\ peer_events =>
                   CanReceiveFrame(m) /\ CanDispatchEvent(m)
            /\ Analyzing(m) => ENABLED AnalyzeDone(m)

(* node 1 is being analyzed; meanwhile node 2 received frame B after frame A
   was in its buffer, and waits for more *)
C29_Witness ==
    /\ Analyzing("1")
    /\ InboundTaskReads("2")
    /\ frame_buffers["2"] = "frameB"
    /\ frame_buffers["1"] = None

(* the analyses of both nodes are in progress at the same time *)
BothAnalyzing == Analyzing("1") /\ Analyzing("2")

----------------------------------------------------------------------------
(* C30: within one channel the two tasks do not wait for one another: while
   the outbound task waits on an empty queue the inbound task can receive a
   frame, and while the inbound task waits for a message, or for the analysis
   of an event, or is about to send an advisory, the outbound task can
   transmit the command at the head of the queue *)
OutboundTaskWaits(n) == pc[n] = "gather" /\ spc[n] = "wait" /\ IsOpen(n)

CanSendCommand(n) ==
    ENABLED (SendCommand(n) /\ sent_cmds'[n] = Append(sent_cmds[n], Head(send_queues[n])))

C30_TasksIndependent ==
    \A n \in pi_dict :
        /\ (OutboundTaskWaits(n) /\ send_queues[n] = << >>
                /\ InboundTaskReads(n) /\ peer_events) => CanReceiveFrame(n)
        /\ (OutboundTaskWaits(n) /\ send_queues[n] # << >>
                /\ rpc[n] \in {"wait", "analyze", "advise"}) => CanSendCommand(n)

(* an analysis is in progress, a command was transmitted on this connection
   and another one is queued *)
C30_Witness ==
    \E n \in pi_dict :
        /\ Analyzing(n)
        /\ OutboundTaskWaits(n)
        /\ send_queues[n] # << >>
        /\ task_out[n].verb = "COMMAND"

----------------------------------------------------------------------------
(* C31: for every event message <prefix>:<eventName>:<base64 image> the
   inbound task hands to the dispatcher exactly eventName and exactly the
   image that was encoded *)
C31_NameAndImagePassed ==
    p_out # NoParse =>
        /\ p_out.done = "dispatched"
        /\ p_out.event_str = p_name
        /\ p_out.img_bytes = p_image

HasColon(name) == \E i \in 1..Len(name) : name[i] = ":"

(* C31, for event names that hold no colon *)
C31_ColonFreeNameAndImagePassed ==
    (p_out # NoParse /\ ~HasColon(p_name)) =>
        /\ p_out.done = "dispatched"
        /\ p_out.event_str = p_name
        /\ p_out.img_bytes = p_image

C31_Witness ==
    /\ p_out.done = "dispatched"
    /\ p_name = << "A", "_" >>
    /\ p_out.event_str = p_name
    /\ p_image = << 1, 0, 1 >>
    /\ p_out.img_bytes = p_image

(* a name with a colon: the part before the colon is dispatched as the name *)
NameCutAtColon ==
    /\ p_out.done = "dispatched"
    /\ HasColon(p_name)
    /\ p_out.event_str # p_name

(* a name with a colon whose tail decodes: the image handed over is not the
   image sent *)
ImageChangedByName ==
    /\ p_out.done = "dispatched"
    /\ p_out.img_bytes # p_image

(* a name with a colon whose tail breaks the base64 length: the event is dropped *)
EventDroppedByName == p_out.done = "raised"

----------------------------------------------------------------------------
(* C32: a call of SemanticEdgeEngine.process_frame runs the detection once,
   whatever the number of policies, and not at all for an empty catalog; and
   every event it returns was decided on, and carries, the detected set of
   that one pass *)
SemanticCall == e_call.detector = "semantic"

C32_OneDetectionPassPerFrame ==
    SemanticCall =>
        /\ e_call.passes = (IF Len(policies) = 0 THEN 0 ELSE 1)
        /\ \A k \in 1..Len(e_call.events) :
              /\ e_call.events[k].detected_str = e_call.detected
              /\ IsMatch(policies[e_call.events[k].policy], e_call.detected)
        /\ ~e_call.raised =>
              \A i \in 1..Len(policies) :
                  OutsideCooldown(i) => (Returned(i) <=> IsMatch(policies[i], e_call.detected))

(* a catalog of two classifier policies, both returned for one frame *)
C32_Witness ==
    /\ SemanticCall
    /\ Len(policies) = 2
    /\ Len(e_call.events) = 2
    /\ e_call.passes = 1

(* an empty catalog: the call returned without a detection pass *)
EmptyCatalogNoPass == SemanticCall /\ policies = << >> /\ e_call.passes = 0

----------------------------------------------------------------------------
(* C33: the tracker keeps one state per event description: a step that
   creates or changes the state of a description is a step of an analyze call
   on that description and leaves the state of every other description as it
   was; and a state, once stored, is never removed *)
KeyState(k) ==
    [present |-> violation_states[k] # 0,
     dict |-> IF violation_states[k] # 0 THEN heap[violation_states[k]] ELSE NoDict]

KeyStateChangedByOwnCall ==
    \A k \in Keys :
        KeyState(k)' # KeyState(k) =>
            /\ \E w \in Workers : th[w].key = k /\ th'[w] # th[w]
            /\ \A o \in Keys \ {k} : KeyState(o)' = KeyState(o)

KeyStateNeverRemoved ==
    \A k \in Keys : KeyState(k).present => KeyState(k)'.present

C33_StatePerDescription ==
    [][KeyStateChangedByOwnCall /\ KeyStateNeverRemoved]_vars

(* one description was alerted, suppressed and escalated; the other then
   had its first occurrence, which was alerted: each has its own counts *)
C33_Witness ==
    /\ \A w \in Workers : th[w].pcw = "idle"
    /\ ~overlapped
    /\ Count("Motion_Alert") = 2
    /\ Count("Lab_Violation") = 1
    /\ last_call.key = "Lab_Violation"
    /\ last_call.tts_alert = FirstAlert("Lab_Violation")
    /\ last_call.current_time - heap[violation_states["Motion_Alert"]].last_alert
           <= EscalationWindow

----------------------------------------------------------------------------
(* C34: at most one route_and_analyze call is in progress for a node at any
   time, the calls begun on connections of the node that were closed since
   included *)
CallsInFlight(n) == (IF rpc[n] = "analyze" THEN 1 ELSE 0) + stale_calls[n]

C34_OneCallInFlightPerNode == \A n \in pi_dict : CallsInFlight(n) <= 1

(* on one connection the inbound task reads no message while its analysis is
   in progress or its advisory is not yet sent *)
OneCallPerConnection ==
    [][\A n \in pi_dict : rpc[n] \in {"analyze", "advise"} => ev'[n] \in {ev[n], NoEvent}]_vars

(* the node is connected again and the analysis of a new event is in progress
   while that of an event of the closed connection has not returned *)
TwoCallsInFlight ==
    \E n \in pi_dict : IsOpen(n) /\ rpc[n] = "analyze" /\ stale_calls[n] > 0

----------------------------------------------------------------------------
(* C35: a command queued while its node was connecting or offline stays in
   the node's queue as long as the node is connecting or offline: it does not
   leave the queue before the next connection is established *)
NodeDown(n) == node_status[n] \in {"connecting", "offline"}

InQueue(n, k) == \E i \in 1..Len(send_queues[n]) : send_queues[n][i] = k

C35_QueuedCommandsRetainedWhileDown ==
    [][\A n \in pi_dict : \A k \in queued_down :
          (NodeDown(n) /\ InQueue(n, k)) => InQueue(n, k)']_vars

(* the same when no outbound task of an earlier connection is left *)
RetainedWhileDownUnlessStale ==
    [][\A n \in pi_dict : (NodeDown(n) /\ stale[n] = 0) => ~CommandTaken(n)]_vars

(* what is transmitted is transmitted on a connection whose handshake is done *)
TransmittedAfterHandshake ==
    [][\A n \in pi_dict :
          sent_cmds'[n] # sent_cmds[n] => IsOpen(n) /\ HandshakeSent(n)]_vars

(* the node is offline, a command was queued since it went offline, and an
   outbound task of the closed connection waits on the queue *)
QueuedWhileOfflineWithStaleTask ==
    \E n \in pi_dict :
        /\ node_status[n] = "offline" /\ pc[n] = "sleep"
        /\ send_queues[n] = << 1 >>
        /\ queued_down = {1}
        /\ stale[n] = 1

(* a step in which the inbound task of node n reads an event while the voice
   assistant is active and the manager is running *)
SkippedRead(n) ==
    /\ ev'[n] # ev[n]
    /\ ev'[n].name # None
    /\ ev'[n].agent_active /\ ~ev'[n].stopped

(* the event read last on the open connection of node n was skipped because
   the voice assistant was active *)
SkippedLast(n) ==
    /\ ev[n].name # None
    /\ ev[n].agent_active /\ ~ev[n].stopped
    /\ pc[n] = "gather" /\ IsOpen(n)

(* C36: an event read while the voice assistant is active is dropped before
   dispatch: the step that reads it starts no analysis, leaves the tracker,
   the advisory text and everything transmitted to any node as they were,
   and changes neither the connection nor the status of any node; after it
   the inbound task is waiting for the next message of the same connection
   and reads it when it arrives *)
C36_DroppedWhileAssistantActive ==
    /\ [][\A n \in pi_dict : SkippedRead(n) =>
              /\ rpc[n] = "wait" /\ rpc'[n] = "wait"
              /\ \A o \in pi_dict : rpc'[o] = "analyze" => rpc[o] = "analyze"
              /\ UNCHANGED <<tts_text, task_out, sent_cmds, wire, node_status, conn, pc, spc,
                             stale, send_queues, frame_buffers, running, tvars, dvars>>]_vars
    /\ [](\A n \in pi_dict : SkippedLast(n) => (rpc[n] = "wait" /\ ENABLED RecvMsg(n)))

(* an event was read and skipped on an online node while the voice assistant
   was active: nothing is being analysed, no advisory text is pending, and
   no queued command was transmitted to the node *)
C36_Witness ==
    \E n \in pi_dict :
        /\ SkippedLast(n)
        /\ node_status[n] = "online"
        /\ rpc[n] = "wait"
        /\ tts_text[n] = EmptyStr
        /\ sent_cmds[n] = << >>
        /\ \A o \in pi_dict : rpc[o] # "analyze"

(* policy i has action crop_target and matched the frame of the call of
   SemanticEdgeEngine.process_frame that ended last *)
CropTargetMatched(i) ==
    /\ e_call.detector = "semantic"
    /\ policies[i].action = "crop_target"
    /\ e_call.at - e_call.before[policies[i].event_name] >= policies[i].cooldown
    /\ IsMatch(policies[i], e_call.detected)

(* C37: process_frame never fails on a matching policy: no call raises, and
   whenever a policy with action crop_target matches a frame one of its
   required classes is among the detected ones, so that there is a box to
   crop, for every required set, every condition and every detected set *)
C37_NeverFailsOnMatch ==
    /\ e_call.detector = "semantic" => ~e_call.raised
    /\ \A i \in 1..Len(policies) :
          CropTargetMatched(i) => policies[i].trigger_classes \cap e_call.detected # {}

(* the same for the policies that require at least one class; a call raises
   only when the catalog has a crop_target policy with condition all that
   requires no class *)
NeverFailsWithRequiredClass ==
    /\ \A i \in 1..Len(policies) :
          (CropTargetMatched(i) /\ policies[i].trigger_classes # {})
              => policies[i].trigger_classes \cap e_call.detected # {}
    /\ (e_call.detector = "semantic" /\ e_call.raised) =>
          \E i \in 1..Len(policies) :
              /\ CropTargetMatched(i)
              /\ policies[i].trigger_classes = {} /\ policies[i].condition = "all"

(* a crop_target policy that requires no class matched a frame in which a
   class was detected: the intersection is empty and the call raised *)
CropTargetFailed ==
    /\ e_call.raised
    /\ e_call.detected # {}
    /\ e_call.events = << >>
    /\ \E i \in 1..Len(policies) :
          CropTargetMatched(i) /\ policies[i].trigger_classes \cap e_call.detected = {}

(* policy i of the catalog has Pixel_Motion_Active in its trigger list *)
HasMotionTrigger(i) == "Pixel_Motion_Active" \in policies[i].trigger

(* a step that is a call of EdgeMotionDetector.process_frame *)
MotionCall == e_frames' = e_frames + 1 /\ e_call'.detector = "motion"

(* the frame of the call has a region larger than the area threshold and the
   call is made no less than the detector's cooldown after its last event *)
MotionOutsideCooldown ==
    /\ \E c \in 1..Len(e_call'.contours) : e_call'.contours[c].area > AreaThreshold
    /\ e_now - last_event_time >= MotionCooldown

(* C38: a call of EdgeMotionDetector.process_frame returns at most one event;
   when motion is found outside the cooldown and some policy is triggered by
   motion, it returns the event of the first such policy in catalog order and
   starts the cooldown; when no policy is triggered by motion, or the catalog
   is empty, it returns no event and leaves the cooldown timer as it was *)
C38_FirstMotionPolicyOnly ==
    [][MotionCall =>
         /\ Len(e_call'.events) <= 1
         /\ \A k \in 1..Len(e_call'.events) :
               LET i == e_call'.events[k].policy
               IN /\ i \in 1..Len(policies)
                  /\ HasMotionTrigger(i)
                  /\ \A j \in 1..(i - 1) : ~HasMotionTrigger(j)
                  /\ e_call'.events[k].event_name = policies[i].event_name
         /\ (MotionOutsideCooldown /\ \E i \in 1..Len(policies) : HasMotionTrigger(i))
               => (Len(e_call'.events) = 1 /\ last_event_time' = e_now)
         /\ (\A i \in 1..Len(policies) : ~HasMotionTrigger(i))
               => (e_call'.events = << >> /\ last_event_time' = last_event_time)
         /\ e_call'.events = << >> => last_event_time' = last_event_time]_vars

(* motion was found with a catalog whose first policy is not triggered by
   motion and whose second and third are: the event of the second was
   returned alone *)
C38_Witness ==
    /\ e_call.detector = "motion"
    /\ Len(policies) = 3
    /\ ~HasMotionTrigger(1) /\ HasMotionTrigger(2) /\ HasMotionTrigger(3)
    /\ Len(e_call.events) = 1
    /\ e_call.events[1].policy = 2
    /\ last_event_time = e_call.at

(* motion was found with a catalog in which no policy is triggered by motion:
   no event was returned and the cooldown timer was never started *)
MotionWithoutMotionPolicy ==
    /\ e_call.detector = "motion"
    /\ policies # << >>
    /\ \A i \in 1..Len(policies) : ~HasMotionTrigger(i)
    /\ \E c \in 1..Len(e_call.contours) : e_call.contours[c].area > AreaThreshold
    /\ e_call.events = << >>
    /\ last_event_time = 0

(* what a call of send_to_node(pi_id, text) may change: the queue of pi_id,
   which gets the text at its tail, and the count of the calls made *)
OnlyQueueOf(pi_id) ==
    /\ \A p \in pi_dict :
          send_queues'[p] = IF p = pi_id THEN Append(send_queues[p], next_cmd)
                                         ELSE send_queues[p]
    /\ DOMAIN send_queues' = DOMAIN send_queues
    /\ UNCHANGED <<running, node_status, frame_buffers, decoded, conf, pc, rpc, spc, stale,
                   stale_calls, conn, wire, task_out, sent_cmds, ev, tts_text, dvars, xvars>>

(* C39: in every state, send_to_node(id, text) appends text to the queue of
   node id and changes no status, no frame buffer, no other queue and nothing
   else of the manager; for an id that is not in the topology it raises
   nothing and leaves every queue as it was *)
C39_OnlyQueueOfNodeChanged ==
    \A pi_id \in pi_dict \cup {UnknownNode} :
        /\ ENABLED send_to_node(pi_id) <=> next_cmd <= max_cmds
        /\ ~ENABLED (send_to_node(pi_id) /\ ~OnlyQueueOf(pi_id))

(* the callers made their one call, no handler has started, and no queue
   holds a command: the call named an id that is not in the topology *)
C39_Witness ==
    /\ next_cmd = 2
    /\ Cardinality(pi_dict) = 2
    /\ \A p \in pi_dict : pc[p] = "start" /\ send_queues[p] = << >>
    /\ \A p \in pi_dict : sent_cmds[p] = << >> /\ node_status[p] = "connecting"

(* the call named node 2 while node 1 was online: the command is in the queue
   of node 2 only *)
QueuedForNamedNodeOnly ==
    /\ next_cmd = 2
    /\ pi_dict = Fleet
    /\ send_queues["2"] = << 1 >> /\ send_queues["1"] = << >>
    /\ node_status["1"] = "online"
====
